---- MODULE Spec2Model ----
(***************************************************************************)
(* Composite-glyph resolution of the shift font editor                     *)
(* (crates/shift-core/src/composite.rs) over the shift-ir data model.      *)
(*                                                                         *)
(* Coordinates are f64 in the program.  Every coordinate and coefficient   *)
(* of the model is a small integer, on which f64 arithmetic is exact, so   *)
(* Int arithmetic computes the same values.  Angles are restricted to the  *)
(* multiples of 90 degrees (45 for skews) and the trigonometric tables     *)
(* below return the exact real values at those angles.                     *)
(*                                                                         *)
(* A HashMap iterates in an order that is unspecified but the same for     *)
(* every iteration of one unmodified map.  Layers list the contents of     *)
(* their maps in creation order; hashSeed, fixed at font construction,     *)
(* selects the order in which the maps iterate (see HashOrder).            *)
(***************************************************************************)
EXTENDS Integers, Sequences, FiniteSets, Bags, TLC

VARIABLES
    font,            \* Font: glyph name -> Glyph (names absent from DOMAIN are unknown)
    hashSeed,        \* the iteration order of the font's HashMaps
    nextId,          \* ENTITY_COUNTER, the next raw entity id
    pc,              \* "idle" (no call in progress) or "root" (inside a resolution call)
    layer,           \* argument `layer` of the call in progress
    root_glyph_name, \* argument `root_glyph_name` of the call in progress
    out,             \* local `out` of resolve_component_instances_for_layer
    visiting,        \* local `visiting`
    placed_anchors,  \* local `placed_anchors` of the root loop
    components,      \* local `components` (sorted) of the root loop
    idx,             \* position of the root loop in `components`
    contours,        \* local `contours`, the buffer of the instance being flattened
    stack,           \* active calls of flatten_component_named, outermost first
    cur,             \* locals of the loop body that ran last (transforms, anchors seen)
    results,         \* the values returned by resolve_component_instances_for_layer so far
    entry,           \* the public function of the call in progress ("" when idle)
    flattened,       \* the values returned by flatten_component_contours_for_layer so far
    dep_graph,       \* DependencyGraph: uses and used_by
    added,           \* the edges handed to add_edge since the graph was built
    walk,            \* locals of the dependents_recursive call in progress or completed
    iter,            \* a CurveSegmentIter and the segments it yielded
    call,            \* a call of a function without state: its name, arguments and value
    engine           \* the FontEngine a provider is taken from: its edit session, the
                     \* glyph under edit and its layer id (None: no engine, FontLayerProvider)

resolverVars == <<font, hashSeed, nextId, pc, layer, root_glyph_name, out, visiting,
                  placed_anchors, components, idx, contours, stack, cur, results,
                  entry, flattened, engine>>

vars == <<resolverVars, dep_graph, added, walk, iter, call, engine>>

-----------------------------------------------------------------------------
(* Bounds of the model *)

\* greatest number of components in a font of the generated family
MaxTotalComps == 3

\* greatest number of resolution calls in one behaviour
MaxCalls == 2

-----------------------------------------------------------------------------
(* Option values *)

None == <<>>
Some(x) == <<x>>
IsSome(o) == Len(o) = 1
Unwrap(o) == o[1]

\* F of the value of v, of the values of a and b: an argument is evaluated
\* once, as the program evaluates the arguments of a call
Once(v, F(_)) == CHOOSE r \in {F(x) : x \in {v}} : TRUE
Once2(a, b, F(_, _)) == CHOOSE r \in {F(x, y) : x \in {a}, y \in {b}} : TRUE

RECURSIVE Reverse(_)
Reverse(s) == IF s = <<>> THEN <<>> ELSE Append(Reverse(Tail(s)), Head(s))

-----------------------------------------------------------------------------
(* shift-ir: Transform and DecomposedTransform *)

Transform_identity == [xx |-> 1, xy |-> 0, yx |-> 0, yy |-> 1, dx |-> 0, dy |-> 0]

Transform_translate(dx, dy) == [Transform_identity EXCEPT !.dx = dx, !.dy = dy]

transform_point(t, x, y) ==
    <<t.xx * x + t.yx * y + t.dx, t.xy * x + t.yy * y + t.dy>>

DecomposedTransform_default ==
    [translate_x |-> 0, translate_y |-> 0, rotation |-> 0,
     scale_x |-> 1, scale_y |-> 1, skew_x |-> 0, skew_y |-> 0,
     t_center_x |-> 0, t_center_y |-> 0]

\* cos, sin of an angle in degrees, at the multiples of 90
CosDeg(a) == CASE a = 0 -> 1 [] a = 90 -> 0 [] a = 180 -> -1 [] a = 270 -> 0
SinDeg(a) == CASE a = 0 -> 0 [] a = 90 -> 1 [] a = 180 -> 0 [] a = 270 -> -1
\* tan of an angle in degrees, at 0, 45 and 135
TanDeg(a) == CASE a = 0 -> 0 [] a = 45 -> 1 [] a = 135 -> -1

\* Faulty variant: the transform center is not compensated in dx and dy
\* (C24_ToMatrixKeepsCenter fails with it).
to_matrix_about_origin(d) ==
    LET cos_r == CosDeg(d.rotation)
        sin_r == SinDeg(d.rotation)
        tan_sx == TanDeg(d.skew_x)
        tan_sy == TanDeg(d.skew_y)
    IN  [xx |-> d.scale_x * cos_r + d.scale_y * tan_sx * sin_r,
         xy |-> d.scale_x * sin_r - d.scale_y * tan_sx * cos_r,
         yx |-> d.scale_y * (0 - sin_r) + d.scale_x * tan_sy * cos_r,
         yy |-> d.scale_y * cos_r + d.scale_x * tan_sy * sin_r,
         dx |-> d.translate_x,
         dy |-> d.translate_y]

to_matrix(d) ==
    LET cos_r == CosDeg(d.rotation)
        sin_r == SinDeg(d.rotation)
        tan_sx == TanDeg(d.skew_x)
        tan_sy == TanDeg(d.skew_y)
        xx == d.scale_x * cos_r + d.scale_y * tan_sx * sin_r
        xy == d.scale_x * sin_r - d.scale_y * tan_sx * cos_r
        yx == d.scale_y * (0 - sin_r) + d.scale_x * tan_sy * cos_r
        yy == d.scale_y * cos_r + d.scale_x * tan_sy * sin_r
        center_x == d.t_center_x
        center_y == d.t_center_y
    IN  [xx |-> xx, xy |-> xy, yx |-> yx, yy |-> yy,
         dx |-> d.translate_x + center_x - (xx * center_x + yx * center_y),
         dy |-> d.translate_y + center_y - (xy * center_x + yy * center_y)]

\* Component::matrix
matrix(component) == to_matrix(component.transform)

-----------------------------------------------------------------------------
(* shift-core composite.rs: pure helpers *)

\* Faulty variant: the outer translation is left out
\* (C12_ComposeAppliesInnerFirst fails with it).
compose_transform_without_outer_offset(outer, inner) ==
    [xx |-> outer.xx * inner.xx + outer.yx * inner.xy,
     xy |-> outer.xy * inner.xx + outer.yy * inner.xy,
     yx |-> outer.xx * inner.yx + outer.yx * inner.yy,
     yy |-> outer.xy * inner.yx + outer.yy * inner.yy,
     dx |-> outer.xx * inner.dx + outer.yx * inner.dy,
     dy |-> outer.xy * inner.dx + outer.yy * inner.dy]

compose_transform(outer, inner) ==
    [xx |-> outer.xx * inner.xx + outer.yx * inner.xy,
     xy |-> outer.xy * inner.xx + outer.yy * inner.xy,
     yx |-> outer.xx * inner.yx + outer.yx * inner.yy,
     yy |-> outer.xy * inner.yx + outer.yy * inner.yy,
     dx |-> outer.xx * inner.dx + outer.yx * inner.dy + outer.dx,
     dy |-> outer.xy * inner.dx + outer.yy * inner.dy + outer.dy]

\* Faulty variant: the order changes between two iterations of the same map
\* (C10_Deterministic fails with it).
HashOrder_unstable(s) == IF (hashSeed = 0) = (nextId = 1000) THEN s ELSE Reverse(s)

\* Iteration order of a HashMap whose entries, in creation order, are s.
HashOrder(s) == IF hashSeed = 0 THEN s ELSE Reverse(s)

\* GlyphLayer::contours_iter, GlyphLayer::anchors_iter, components().iter()
contours_iter(l) == HashOrder(l.contours)
anchors_iter(l) == HashOrder(l.anchors)
components_iter(l) == HashOrder(l.components)

layer_complexity(l) == Len(l.contours) + Len(l.components)

\* Iterator::max_by_key: the last element with the greatest key.
RECURSIVE max_by_key_complexity(_, _)
max_by_key_complexity(ls, best) ==
    IF ls = <<>> THEN best
    ELSE IF best = None \/ layer_complexity(Head(ls)) >= layer_complexity(Unwrap(best))
         THEN max_by_key_complexity(Tail(ls), Some(Head(ls)))
         ELSE max_by_key_complexity(Tail(ls), best)

\* Faulty variant: the first layer of the map is taken
\* (C20_PreferredLayer fails with it).
first_layer_for_glyph(glyph) ==
    IF glyph.layers = <<>> THEN None ELSE Some(Head(HashOrder(glyph.layers)))

\* preferred_layer_for_glyph
preferred_layer_for_glyph(glyph) == max_by_key_complexity(HashOrder(glyph.layers), None)

\* Faulty variant: an unknown name falls back to the glyph A
\* (C9_MissingOrEmptyYieldsNothing fails with it).
glyph_layer_with_fallback(glyph_name) ==
    preferred_layer_for_glyph(IF glyph_name \in DOMAIN font THEN font[glyph_name] ELSE font["A"])

\* FontLayerProvider::glyph_layer
glyph_layer(glyph_name) ==
    IF glyph_name \in DOMAIN font THEN preferred_layer_for_glyph(font[glyph_name]) ELSE None

\* Faulty variant: the session's layer is returned for every name while a
\* session is active (C21_SessionAwareProvider fails with it).
EngineLayerProvider_glyph_layer_any_name(glyph_name) ==
    IF engine.current_edit_session # None /\ engine.editing_glyph # None
    THEN Some(Unwrap(engine.current_edit_session).layer)
    ELSE glyph_layer(glyph_name)

\* EngineLayerProvider::glyph_layer, the provider being FontEngine::layer_provider
EngineLayerProvider_glyph_layer(glyph_name) ==
    IF /\ engine.current_edit_session # None
       /\ engine.editing_glyph # None
       /\ Unwrap(engine.editing_glyph).name = glyph_name
    THEN Some(Unwrap(engine.current_edit_session).layer)
    ELSE glyph_layer(glyph_name)

\* `provider.glyph_layer(..)` for the `provider: &impl GlyphLayerProvider`
\* the resolver was handed
provider_glyph_layer(glyph_name) ==
    IF engine = None THEN glyph_layer(glyph_name)
    ELSE EngineLayerProvider_glyph_layer(glyph_name)

-----------------------------------------------------------------------------
(* Anchor names.  A name is the sequence of its characters, written with   *)
(* every run of characters other than '_' as one token: "_top" is          *)
(* <<"_", "top">>.  An anchor without a name has named = FALSE.            *)

\* Faulty variant: a name without the prefix is taken as its own target
\* (C8_NoPairingNoAttachment fails with it).
strip_prefix_optional(name) ==
    IF name # <<>> /\ Head(name) = "_" THEN Some(Tail(name)) ELSE Some(name)

\* str::strip_prefix('_')
strip_prefix_underscore(name) ==
    IF name # <<>> /\ Head(name) = "_" THEN Some(Tail(name)) ELSE None

\* ResolvedContour of a contour under a transform; the points get fresh ids
\* first_id, first_id + 1, ...
transform_contour_points(contour, transform, first_id) ==
    [points |-> [k \in 1..Len(contour.points) |->
                    LET point == contour.points[k]
                        xy == transform_point(transform, point.x, point.y)
                    IN  [id |-> first_id + k - 1, x |-> xy[1], y |-> xy[2],
                         point_type |-> point.point_type, smooth |-> point.smooth]],
     closed |-> contour.closed]

\* Faulty variant: the search from the front, the anchor placed first
\* (C7_LatestPlacedWins fails with it).
RECURSIVE find_from_front(_, _)
find_from_front(placed, target_name) ==
    IF placed = <<>> THEN None
    ELSE IF Head(placed).name = target_name THEN Some(Head(placed))
    ELSE find_from_front(Tail(placed), target_name)

\* placed_anchors.iter().rev().find(|a| a.name == target_name)
RECURSIVE rev_find(_, _)
rev_find(placed, target_name) ==
    IF placed = <<>> THEN None
    ELSE IF placed[Len(placed)].name = target_name THEN Some(placed[Len(placed)])
    ELSE rev_find(SubSeq(placed, 1, Len(placed) - 1), target_name)

\* The loop of anchor_offset_for_component over the anchors still to visit.
RECURSIVE anchor_offset_loop(_, _, _)
anchor_offset_loop(anchors, component_transform, placed) ==
    IF anchors = <<>> THEN None
    ELSE LET anchor == Head(anchors)
             rest == anchor_offset_loop(Tail(anchors), component_transform, placed)
         IN  IF ~anchor.named THEN rest
             ELSE LET target == strip_prefix_underscore(anchor.name)
                  IN  IF target = None THEN rest
                      ELSE IF Unwrap(target) = <<>> THEN rest
                      ELSE LET base_anchor == rev_find(placed, Unwrap(target))
                           IN  IF base_anchor = None THEN rest
                               ELSE LET a == transform_point(component_transform,
                                                             anchor.x, anchor.y)
                                    IN  Some([dx |-> Unwrap(base_anchor).x - a[1],
                                              dy |-> Unwrap(base_anchor).y - a[2]])

anchor_offset_for_component(component_layer, component_transform, placed) ==
    anchor_offset_loop(anchors_iter(component_layer), component_transform, placed)

RECURSIVE append_anchors_loop(_, _, _)
append_anchors_loop(anchors, component_transform, placed) ==
    IF anchors = <<>> THEN placed
    ELSE LET anchor == Head(anchors)
             xy == transform_point(component_transform, anchor.x, anchor.y)
         IN  append_anchors_loop(Tail(anchors), component_transform,
                 IF ~anchor.named THEN placed
                 ELSE Append(placed, [name |-> anchor.name, x |-> xy[1], y |-> xy[2]]))

append_component_anchors(component_layer, component_transform, placed) ==
    append_anchors_loop(anchors_iter(component_layer), component_transform, placed)

\* Faulty variant: the offset applied before the explicit transform
\* (C6_AnchorAttachment fails with it).
offset_then_explicit(offset, explicit_transform) ==
    compose_transform(explicit_transform, Transform_translate(offset.dx, offset.dy))

\* Faulty variant: the attachment offset takes the place of the explicit
\* transform (C28_AttachmentOnlyTranslates fails with it).
offset_instead_of_explicit(offset, explicit_transform) ==
    Transform_translate(offset.dx, offset.dy)

\* `compose_transform(Transform::translate(offset.dx, offset.dy), explicit_transform)`
explicit_then_offset(offset, explicit_transform) ==
    compose_transform(Transform_translate(offset.dx, offset.dy), explicit_transform)

resolve_component_transform(component_base_glyph, explicit_transform, placed) ==
    LET component_layer == provider_glyph_layer(component_base_glyph)
    IN  IF component_layer = None THEN explicit_transform
        ELSE LET offset == anchor_offset_for_component(Unwrap(component_layer),
                                                       explicit_transform, placed)
             IN  IF offset = None THEN explicit_transform
                 ELSE explicit_then_offset(Unwrap(offset), explicit_transform)

\* `if let Some(component_layer) = provider.glyph_layer(..) { append_component_anchors }`
placed_after_component(component_base_glyph, component_transform, placed) ==
    LET component_layer == provider_glyph_layer(component_base_glyph)
    IN  IF component_layer = None THEN placed
        ELSE append_component_anchors(Unwrap(component_layer), component_transform, placed)

\* components.sort_by_key(|(id, _)| id.raw()): insertion of each element
\* after the elements whose key is not greater (a stable sort).
RECURSIVE insert_by_raw(_, _)
insert_by_raw(sorted, c) ==
    IF sorted = <<>> THEN <<c>>
    ELSE IF Head(sorted).id <= c.id THEN <<Head(sorted)>> \o insert_by_raw(Tail(sorted), c)
    ELSE <<c>> \o sorted

\* Faulty variant: the components stay in the order the map iterates
\* (C5_OneInstancePerComponent fails with it).
sort_by_raw_skipped(s) == s

RECURSIVE sort_by_raw(_)
sort_by_raw(s) ==
    IF s = <<>> THEN <<>>
    ELSE insert_by_raw(sort_by_raw(SubSeq(s, 1, Len(s) - 1)), s[Len(s)])

\* `let mut components: Vec<_> = layer.components().iter().collect();
\*  components.sort_by_key(|(id, _)| id.raw());`
sorted_components(l) == sort_by_raw(components_iter(l))

\* `for contour in layer.contours_iter() { out.push(transform_contour_points(..)) }`
RECURSIVE push_contours(_, _, _, _)
push_contours(buffer, cs, transform, first_id) ==
    IF cs = <<>> THEN buffer
    ELSE push_contours(Append(buffer, transform_contour_points(Head(cs), transform, first_id)),
                       Tail(cs), transform, first_id + Len(Head(cs).points))

RECURSIVE count_points(_)
count_points(cs) == IF cs = <<>> THEN 0 ELSE Len(Head(cs).points) + count_points(Tail(cs))

\* Faulty variant: no cycle guard (C1_Terminates fails with it).
visiting_insert_unguarded(set, glyph_name) == TRUE

\* `visiting.insert(glyph_name)`: TRUE when the name was not in the set
visiting_insert(set, glyph_name) == glyph_name \notin set

\* Faulty variant: the glyph stays marked (C2_OnlyReentrySkipped fails with it).
visiting_remove_forgotten(set, glyph_name) == set

\* Faulty variant: every mark is dropped when an expansion returns
\* (C22_VisitingIsCallChain fails with it).
visiting_remove_clears(set, glyph_name) == {}

\* `visiting.remove(glyph_name)`
visiting_remove(set, glyph_name) == set \ {glyph_name}

\* Faulty variant: the composition the other way round (C4_Completeness fails with it).
accumulated_transform_swapped(transform, component_transform) ==
    compose_transform(component_transform, transform)

\* the transform handed to the recursive call: compose_transform(transform, component_transform)
accumulated_transform(transform, component_transform) ==
    compose_transform(transform, component_transform)

\* flatten_component_contours_for_layer, applied to the instances resolved
RECURSIVE flatten_component_contours(_)
flatten_component_contours(instances) ==
    IF instances = <<>> THEN <<>>
    ELSE Head(instances).contours \o flatten_component_contours(Tail(instances))

-----------------------------------------------------------------------------
(* Fonts.  The glyphs are named A, B and C.  A font of the generated       *)
(* family is a component graph (for every glyph the base glyphs of its     *)
(* components, in creation order) dressed by one of five variants that     *)
(* fix the contours, the anchors and the component transforms.             *)

Names == {"A", "B", "C"}

NameIndex(g) == CASE g = "A" -> 1 [] g = "B" -> 2 [] g = "C" -> 3

Variants == 1..5

on_curve(id, x, y) ==
    [id |-> id, x |-> x, y |-> y, point_type |-> "OnCurve", smooth |-> FALSE]
off_curve(id, x, y) ==
    [id |-> id, x |-> x, y |-> y, point_type |-> "OffCurve", smooth |-> FALSE]

\* the test helper two_point_contour
two_point_contour(id, x0, y0, x1, y1) ==
    [id |-> id, points |-> <<on_curve(id + 1, x0, y0), on_curve(id + 2, x1, y1)>>,
     closed |-> FALSE]

closed_contour(id, x0, y0, x1, y1, x2, y2) ==
    [id |-> id,
     points |-> <<on_curve(id + 1, x0, y0), off_curve(id + 2, x1, y1), on_curve(id + 3, x2, y2)>>,
     closed |-> TRUE]

\* Anchor::new(Some(name), x, y) and Anchor::new(None, x, y)
Anchor(name, x, y) == [named |-> TRUE, name |-> name, x |-> x, y |-> y]
UnnamedAnchor(x, y) == [named |-> FALSE, name |-> <<>>, x |-> x, y |-> y]

translated(x, y) == [DecomposedTransform_default EXCEPT !.translate_x = x, !.translate_y = y]

TransformPool ==
    << translated(30, 40),
       [DecomposedTransform_default EXCEPT !.scale_x = 2, !.scale_y = 2],
       [DecomposedTransform_default EXCEPT !.rotation = 90, !.translate_x = 5],
       [DecomposedTransform_default EXCEPT !.scale_x = 2, !.skew_x = 45, !.t_center_x = 10] >>

\* the transform of the k-th component of glyph g in variant v
ComponentTransform(v, g, k) ==
    IF v = 2 THEN TransformPool[((NameIndex(g) + k - 2) % 4) + 1]
    ELSE IF v = 3 /\ g # "A" THEN TransformPool[((k - 1) % 4) + 1]
    ELSE DecomposedTransform_default

\* Component::with_transform; ids grow with creation order
ComponentsOf(v, g, bases) ==
    [k \in 1..Len(bases) |->
        [id |-> 10 * NameIndex(g) + k, base_glyph |-> bases[k],
         transform |-> ComponentTransform(v, g, k)]]

ContoursOf(v, g) ==
    CASE v = 1 /\ g = "A" -> <<two_point_contour(100, 1, 1, 2, 2)>>
      [] v = 1 /\ g = "B" -> <<two_point_contour(200, 0, 0, 10, 0)>>
      [] v = 1 /\ g = "C" -> <<two_point_contour(300, 0, 0, 10, 0)>>
      [] v = 2 /\ g = "A" -> <<two_point_contour(100, 0, 0, 10, 10)>>
      [] v = 2 /\ g = "B" -> <<two_point_contour(200, 0, 0, 20, 20),
                               closed_contour(210, 1, 2, 3, 4, 5, 6)>>
      [] v = 2 /\ g = "C" -> <<two_point_contour(300, 10, 0, 30, 20)>>
      [] v = 3 /\ g = "A" -> <<two_point_contour(100, 1, 1, 2, 2)>>
      [] v = 3 /\ g = "B" -> <<two_point_contour(200, 0, 0, 10, 0)>>
      [] v = 3 /\ g = "C" -> <<two_point_contour(300, 0, 0, 10, 0)>>
      [] v = 4 /\ g = "A" -> <<two_point_contour(100, 1, 1, 2, 2)>>
      [] v = 4 /\ g = "B" -> <<two_point_contour(200, 0, 0, 10, 0)>>
      [] v = 5 /\ g = "A" -> <<two_point_contour(100, 1, 1, 2, 2)>>
      [] OTHER -> <<>>

AnchorsOf(v, g) ==
    CASE v = 1 /\ g = "A" -> <<Anchor(<<"top">>, 7, 9)>>
      [] v = 1 /\ g = "B" -> <<Anchor(<<"top">>, 100, 200)>>
      [] v = 1 /\ g = "C" -> <<Anchor(<<"_", "top">>, 5, 0), Anchor(<<"top">>, 5, 20)>>
      [] v = 2 /\ g = "A" -> <<Anchor(<<"top">>, 50, 60), Anchor(<<"_", "top">>, 1, 1)>>
      [] v = 2 /\ g = "B" -> <<Anchor(<<"top">>, 100, 200), Anchor(<<"bottom">>, 50, -10)>>
      [] v = 2 /\ g = "C" -> <<Anchor(<<"_", "bottom">>, 5, 10), Anchor(<<"_", "top">>, 5, 0),
                               Anchor(<<"top">>, 5, 20)>>
      [] v = 3 /\ g = "A" -> <<Anchor(<<"parent", "_", "top">>, 0, 0), Anchor(<<"top">>, 3, 4)>>
      [] v = 3 /\ g = "B" -> <<Anchor(<<"top">>, 100, 200), UnnamedAnchor(1, 1),
                               Anchor(<<"_">>, 2, 2)>>
      [] v = 3 /\ g = "C" -> <<Anchor(<<"top", "_", "extra">>, 5, 0), Anchor(<<"_">>, 9, 9),
                               UnnamedAnchor(100, 220)>>
      [] v = 4 /\ g = "A" -> <<Anchor(<<"top">>, 7, 9)>>
      [] v = 4 /\ g = "B" -> <<Anchor(<<"_", "top">>, 5, 0)>>
      [] v = 5 /\ g = "B" -> <<Anchor(<<"top">>, 100, 200)>>
      [] OTHER -> <<>>

\* GlyphLayer with its contours, components and anchors in creation order
LayerOf(v, g, bases) ==
    [contours |-> ContoursOf(v, g), components |-> ComponentsOf(v, g, bases),
     anchors |-> AnchorsOf(v, g)]

\* GlyphLayer::with_width: no contours, no components; here with one anchor
SpareLayer ==
    [contours |-> <<>>, components |-> <<>>, anchors |-> <<Anchor(<<"top">>, 1, 1)>>]

\* In variants 4 and 5 glyph B has a second, empty layer.  In variant 4 glyph C
\* is not in the font; in variant 5 it is a glyph without any layer and B has
\* no contour.
GlyphOf(v, g, bases) ==
    IF v \in {4, 5} /\ g = "B" THEN [layers |-> <<SpareLayer, LayerOf(v, g, bases)>>]
    ELSE IF v = 5 /\ g = "C" THEN [layers |-> <<>>]
    ELSE [layers |-> <<LayerOf(v, g, bases)>>]

GlyphsOf(v) == IF v = 4 THEN {"A", "B"} ELSE Names

BuildFont(v, graph) == [g \in GlyphsOf(v) |-> GlyphOf(v, g, graph[g])]

BaseLists(n) == UNION {[1..k -> Names] : k \in 0..n}

\* every assignment of component lists with at most MaxTotalComps components in all
Graphs ==
    UNION { UNION { { [A |-> a, B |-> b, C |-> c] :
                        c \in BaseLists(MaxTotalComps - Len(a) - Len(b)) } :
                    b \in BaseLists(MaxTotalComps - Len(a)) } :
            a \in BaseLists(MaxTotalComps) }

-----------------------------------------------------------------------------
(* The state machine *)

\* The layer a caller resolves: the root glyph's layer as the provider sees it.
RootLayer == Unwrap(glyph_layer("A"))

\* The same layer after the editor removed the components that refer to the
\* root glyph itself (GlyphLayer::remove_component).
RECURSIVE remove_components_of(_, _)
remove_components_of(cs, base) ==
    IF cs = <<>> THEN <<>>
    ELSE IF Head(cs).base_glyph = base THEN remove_components_of(Tail(cs), base)
    ELSE <<Head(cs)>> \o remove_components_of(Tail(cs), base)

PrunedLayer == [RootLayer EXCEPT !.components = remove_components_of(@, "A")]

CallLayers == {RootLayer, PrunedLayer}

\* nothing but the resolver is in use
OthersIdle ==
    /\ dep_graph = [uses |-> <<>>, used_by |-> <<>>]
    /\ added = {}
    /\ walk = None
    /\ iter = None
    /\ call = None

\* the resolver's locals before any call
LocalsIdle ==
    /\ nextId = 1000
    /\ pc = "idle"
    /\ layer = None
    /\ root_glyph_name = ""
    /\ out = <<>>
    /\ visiting = {}
    /\ placed_anchors = <<>>
    /\ components = <<>>
    /\ idx = 1
    /\ contours = <<>>
    /\ stack = <<>>
    /\ cur = None
    /\ results = <<>>
    /\ entry = ""
    /\ flattened = <<>>

\* no call in progress, and no FontEngine: the provider is a FontLayerProvider
ResolverIdle ==
    /\ LocalsIdle
    /\ engine = None

Init ==
    /\ \E v \in Variants, graph \in Graphs : font = BuildFont(v, graph)
    /\ hashSeed \in {0, 1}
    /\ ResolverIdle
    /\ OthersIdle

\* resolve_component_instances_for_layer, up to the loop over the components;
\* e is the public function that was called
Resolve(l, name, e) ==
    /\ pc = "idle"
    /\ Len(results) + Len(flattened) < MaxCalls
    /\ entry' = e
    /\ pc' = "root"
    /\ layer' = Some(l)
    /\ root_glyph_name' = name
    /\ out' = <<>>
    /\ visiting' = {name}
    /\ placed_anchors' = <<>>
    /\ components' = sorted_components(l)
    /\ idx' = 1
    /\ contours' = <<>>
    /\ stack' = <<>>
    /\ cur' = None
    /\ UNCHANGED <<font, hashSeed, nextId, results, flattened, dep_graph, added, walk, iter, call, engine>>

\* The locals of one pass through the body of a component loop.
LoopBody(depth, component, placed) ==
    LET explicit_transform == matrix(component)
        component_transform ==
            resolve_component_transform(component.base_glyph, explicit_transform, placed)
    IN  [depth |-> depth, component |-> component,
         explicit_transform |-> explicit_transform,
         component_transform |-> component_transform,
         placed_before |-> placed,
         placed_after |-> placed_after_component(component.base_glyph,
                                                 component_transform, placed),
         entered |-> visiting_insert(visiting, component.base_glyph)]

\* Faulty variant: the expansion starts from the anchors placed at the root
\* level instead of an empty list (C27_PlacedAnchorsAreScoped fails with it).
CallFrame_with_outer_anchors(glyph_name, transform) ==
    LET l == provider_glyph_layer(glyph_name)
    IN  [glyph_name |-> glyph_name, transform |-> transform,
         components |-> IF l = None THEN <<>> ELSE sorted_components(Unwrap(l)),
         i |-> 1, placed_anchors |-> placed_anchors]

\* flatten_component_named from its entry to its loop, for a glyph that was
\* not being visited: the frame of the call and the contours it pushed.
CallFrame(glyph_name, transform) ==
    LET l == provider_glyph_layer(glyph_name)
    IN  [glyph_name |-> glyph_name, transform |-> transform,
         components |-> IF l = None THEN <<>> ELSE sorted_components(Unwrap(l)),
         i |-> 1, placed_anchors |-> <<>>]

CallContours(glyph_name) ==
    LET l == provider_glyph_layer(glyph_name)
    IN  IF l = None THEN <<>> ELSE contours_iter(Unwrap(l))

\* One pass through the loop of resolve_component_instances_for_layer, up to
\* the loop of the flatten_component_named call it makes (or through that
\* call and the push of the instance when the call returns at its guard).
RootComponent ==
    /\ pc = "root"
    /\ stack = <<>>
    /\ idx <= Len(components)
    /\ LET body == LoopBody(0, components[idx], placed_anchors)
           base == components[idx].base_glyph
       IN  /\ cur' = Some(body)
           /\ placed_anchors' = body.placed_after
           /\ idx' = idx + 1
           /\ IF body.entered
              THEN /\ visiting' = visiting \cup {base}
                   /\ contours' = push_contours(<<>>, CallContours(base),
                                                body.component_transform, nextId)
                   /\ nextId' = nextId + count_points(CallContours(base))
                   /\ stack' = <<CallFrame(base, body.component_transform)>>
                   /\ out' = out
              ELSE /\ contours' = <<>>
                   /\ out' = Append(out, [component_glyph_name |-> base, contours |-> <<>>])
                   /\ UNCHANGED <<visiting, nextId, stack>>
    /\ UNCHANGED <<font, hashSeed, pc, layer, root_glyph_name, components, results,
                   entry, flattened, dep_graph, added, walk, iter, call, engine>>

\* One pass through the loop of flatten_component_named in the innermost call.
NestedComponent ==
    /\ pc = "root"
    /\ stack # <<>>
    /\ LET d == Len(stack)
           top == stack[d]
       IN  /\ top.i <= Len(top.components)
           /\ LET body == LoopBody(d, top.components[top.i], top.placed_anchors)
                  base == top.components[top.i].base_glyph
                  transform == accumulated_transform(top.transform, body.component_transform)
                  caller == [top EXCEPT !.i = top.i + 1,
                                        !.placed_anchors = body.placed_after]
              IN  /\ cur' = Some(body)
                  /\ IF body.entered
                     THEN /\ visiting' = visiting \cup {base}
                          /\ contours' = push_contours(contours, CallContours(base),
                                                       transform, nextId)
                          /\ nextId' = nextId + count_points(CallContours(base))
                          /\ stack' = Append([stack EXCEPT ![d] = caller],
                                             CallFrame(base, transform))
                     ELSE /\ stack' = [stack EXCEPT ![d] = caller]
                          /\ UNCHANGED <<visiting, contours, nextId>>
    /\ UNCHANGED <<font, hashSeed, pc, layer, root_glyph_name, out, placed_anchors,
                   components, idx, results, entry, flattened, dep_graph, added, walk, iter, call, engine>>

\* The end of a flatten_component_named call: `visiting.remove(glyph_name)`;
\* back in the root loop the instance is pushed.
Return ==
    /\ pc = "root"
    /\ stack # <<>>
    /\ LET d == Len(stack)
           top == stack[d]
       IN  /\ top.i > Len(top.components)
           /\ visiting' = visiting_remove(visiting, top.glyph_name)
           /\ stack' = SubSeq(stack, 1, d - 1)
           /\ out' = IF d = 1
                     THEN Append(out, [component_glyph_name |-> components[idx - 1].base_glyph,
                                       contours |-> contours])
                     ELSE out
    /\ UNCHANGED <<font, hashSeed, nextId, pc, layer, root_glyph_name, placed_anchors,
                   components, idx, contours, cur, results, entry, flattened,
                   dep_graph, added, walk, iter, call, engine>>

\* Faulty variant: the instances taken from the last to the first
\* (C11_FlattenIsConcatenation fails with it).
flat_map_contours_backwards(instances) == flatten_component_contours(Reverse(instances))

\* `.into_iter().flat_map(|instance| instance.contours).collect()`
flat_map_contours(instances) == flatten_component_contours(instances)

\* The end of resolve_component_instances_for_layer: `out` is returned and
\* the locals are dropped; flatten_component_contours_for_layer returns the
\* contours of the instances.
Finish ==
    /\ pc = "root"
    /\ stack = <<>>
    /\ idx > Len(components)
    /\ IF entry = "flatten_component_contours_for_layer"
       THEN /\ flattened' = Append(flattened,
                                  [layer |-> Unwrap(layer), root_glyph_name |-> root_glyph_name,
                                   contours |-> flat_map_contours(out)])
            /\ results' = results
       ELSE /\ results' = Append(results,
                                [layer |-> Unwrap(layer), root_glyph_name |-> root_glyph_name,
                                 out |-> out])
            /\ flattened' = flattened
    /\ entry' = ""
    /\ pc' = "idle"
    /\ layer' = None
    /\ root_glyph_name' = ""
    /\ out' = <<>>
    /\ visiting' = {}
    /\ placed_anchors' = <<>>
    /\ components' = <<>>
    /\ idx' = 1
    /\ contours' = <<>>
    /\ cur' = None
    /\ UNCHANGED <<font, hashSeed, nextId, stack, dep_graph, added, walk, iter, call, engine>>

Call == \E l \in CallLayers : Resolve(l, "A", "resolve_component_instances_for_layer")

Next == Call \/ RootComponent \/ NestedComponent \/ Return \/ Finish

Spec == Init /\ [][Next]_vars

\* Calls of both public functions, by turns: flatten_component_contours_for_layer
\* first, then resolve_component_instances_for_layer.
CallByTurns ==
    \E l \in CallLayers :
        Resolve(l, "A", IF Len(flattened) <= Len(results)
                        THEN "flatten_component_contours_for_layer"
                        ELSE "resolve_component_instances_for_layer")

NextFlatten == CallByTurns \/ RootComponent \/ NestedComponent \/ Return \/ Finish

SpecFlatten == Init /\ [][NextFlatten]_vars

-----------------------------------------------------------------------------
(* Vocabulary of the properties *)

\* the base glyphs of a layer's components, in creation order
BasesOf(l) == [k \in DOMAIN l.components |-> l.components[k].base_glyph]

\* the base glyphs of the components of glyph g (of its last layer)
GlyphBases(g) ==
    IF g \in DOMAIN font /\ font[g].layers # <<>>
    THEN BasesOf(font[g].layers[Len(font[g].layers)])
    ELSE <<>>

GraphIs(a, b, c) == GlyphBases("A") = a /\ GlyphBases("B") = b /\ GlyphBases("C") = c

\* the glyph is unknown to the font or has no layer
Missing(g) == g \notin DOMAIN font \/ font[g].layers = <<>>

\* every layer of the glyph is without contours and without components
EmptyGlyph(g) ==
    /\ ~Missing(g)
    /\ \A k \in DOMAIN font[g].layers :
          font[g].layers[k].contours = <<>> /\ font[g].layers[k].components = <<>>

\* the number of contours of the glyph when each of its layers has as many
OwnContours(g) == Len(font[g].layers[Len(font[g].layers)].contours)

Coords(contour) == [k \in DOMAIN contour.points |-> <<contour.points[k].x, contour.points[k].y>>]

\* a resolved contour without the identities of its points
Shape(contour) ==
    [points |-> [k \in DOMAIN contour.points |->
                    [x |-> contour.points[k].x, y |-> contour.points[k].y,
                     point_type |-> contour.points[k].point_type,
                     smooth |-> contour.points[k].smooth]],
     closed |-> contour.closed]

Shapes(cs) == [k \in DOMAIN cs |-> Shape(cs[k])]

InstanceShapes(o) ==
    [k \in DOMAIN o |-> [component_glyph_name |-> o[k].component_glyph_name,
                         contours |-> Shapes(o[k].contours)]]

-----------------------------------------------------------------------------
(* C1: termination *)

\* The root name stays in `visiting`, so a call chain holds each other name once.
MaxDepth == Cardinality(Names) - 1

MeasureBase == MaxTotalComps + 2

Weight(d) == IF d > MaxDepth THEN 0 ELSE MeasureBase ^ (MaxDepth - d)

RECURSIVE StackMeasure(_)
StackMeasure(d) ==
    IF d = 0 THEN 0
    ELSE (Len(stack[d].components) - stack[d].i + 2) * Weight(d) + StackMeasure(d - 1)

\* A natural number: the passes the loops still have to make, the loop of an
\* outer call weighing more than everything an inner call can still do.
TerminationMeasure ==
    IF pc = "idle" THEN 0
    ELSE (Len(components) - idx + 2) * Weight(0) + StackMeasure(Len(stack))

\* C1: on every component graph, with self-reference and mutual reference,
\* resolution terminates and returns: the recursion is never deeper than the
\* number of glyph names, and every step inside a call strictly decreases a
\* natural-valued measure, so the call reaches its return after finitely many.
C1_Terminates ==
    [][pc = "root" =>
          /\ Len(stack') <= MaxDepth
          /\ TerminationMeasure' >= 0
          /\ TerminationMeasure' < TerminationMeasure]_vars

\* a resolution of a layer that refers to itself and to a glyph that refers back returned
C1_Witness ==
    /\ GraphIs(<<"A", "B">>, <<"A">>, <<>>)
    /\ Len(results) = 1
    /\ Len(results[1].out) = 2

-----------------------------------------------------------------------------
(* C2: a cycle skips only the re-entry *)

ScenarioC2 == GraphIs(<<"B", "C">>, <<"A">>, <<>>)

\* C2: a branch that leads back to a glyph on the call chain loses only the
\* re-entry: every instance of a glyph that is not the root holds at least the
\* glyph's own contours, and for root A with components B (its contours and a
\* component back to A) and C the flattened result is B's and C's contours,
\* 2 contours when each has one.
C2_OnlyReentrySkipped ==
    \A n \in DOMAIN results :
        LET r == results[n] IN
        /\ \A k \in DOMAIN r.out :
              LET g == r.out[k].component_glyph_name
              IN  (g # r.root_glyph_name /\ ~Missing(g)) =>
                      Len(r.out[k].contours) >= Len(Unwrap(glyph_layer(g)).contours)
        /\ (ScenarioC2 /\ ~Missing("C")) =>
              /\ Len(flatten_component_contours(r.out)) = OwnContours("B") + OwnContours("C")
              /\ (OwnContours("B") = 1 /\ OwnContours("C") = 1) =>
                     Len(flatten_component_contours(r.out)) = 2

C2_Witness ==
    /\ ScenarioC2
    /\ Len(results) = 1
    /\ Len(results[1].out) = 2
    /\ Len(results[1].out[1].contours) = 1
    /\ Len(results[1].out[2].contours) = 1
    /\ Len(flatten_component_contours(results[1].out)) = 2

-----------------------------------------------------------------------------
(* C3: a cyclic direct component and its siblings *)

RECURSIVE WithoutInstancesOf(_, _)
WithoutInstancesOf(o, g) ==
    IF o = <<>> THEN <<>>
    ELSE IF Head(o).component_glyph_name = g THEN WithoutInstancesOf(Tail(o), g)
    ELSE <<Head(o)>> \o WithoutInstancesOf(Tail(o), g)

\* C3: a direct component whose base glyph is the root itself contributes no
\* geometry and leaves its siblings alone: the other components resolve to the
\* same contours, with the same coordinates, as for the layer without it.
C3_SiblingsUnaffected ==
    \A n, m \in DOMAIN results :
        (/\ results[n].layer = RootLayer
         /\ results[m].layer = PrunedLayer
         /\ RootLayer # PrunedLayer)
        => /\ \A k \in DOMAIN results[n].out :
                 results[n].out[k].component_glyph_name = "A"
                    => results[n].out[k].contours = <<>>
           /\ InstanceShapes(WithoutInstancesOf(results[n].out, "A"))
                 = InstanceShapes(results[m].out)

-----------------------------------------------------------------------------
(* C4: completeness on acyclic graphs *)

Range(s) == {s[k] : k \in DOMAIN s}

\* the components of a layer by ascending id
RankedComponents(l) ==
    [k \in 1..Len(l.components) |->
        CHOOSE c \in Range(l.components) :
            Cardinality({c2 \in Range(l.components) : c2.id < c.id}) = k - 1]

Successors(g) ==
    IF glyph_layer(g) = None THEN {} ELSE Range(BasesOf(Unwrap(glyph_layer(g))))

RECURSIVE Closure(_)
Closure(S) ==
    LET T == S \cup UNION {Successors(g) : g \in S}
    IN  IF T = S THEN S ELSE Closure(T)

\* no glyph reachable from the layer reaches itself, nor the root
Acyclic(l, root) ==
    LET R == Closure(Range(BasesOf(l)))
    IN  root \notin R /\ \A g \in R : g \notin Closure(Successors(g))

\* the anchors placed by the components before the k-th, and the k-th transform
RECURSIVE PlacedBefore(_, _)
PlacedBefore(cs, k) ==
    IF k = 1 THEN <<>>
    ELSE LET p == PlacedBefore(cs, k - 1)
             c == cs[k - 1]
         IN  placed_after_component(c.base_glyph,
                 resolve_component_transform(c.base_glyph, matrix(c), p), p)

EffectiveTransform(cs, k) ==
    resolve_component_transform(cs[k].base_glyph, matrix(cs[k]), PlacedBefore(cs, k))

\* a point under the transforms of a path, listed from the root down: the
\* innermost transform first
RECURSIVE ApplyChain(_, _)
ApplyChain(chain, p) ==
    IF chain = <<>> THEN p
    ELSE ApplyChain(SubSeq(chain, 1, Len(chain) - 1),
                    transform_point(chain[Len(chain)], p[1], p[2]))

ChainShape(contour, chain) ==
    [points |-> [k \in DOMAIN contour.points |->
                    LET q == ApplyChain(chain, <<contour.points[k].x, contour.points[k].y>>)
                    IN  [x |-> q[1], y |-> q[2],
                         point_type |-> contour.points[k].point_type,
                         smooth |-> contour.points[k].smooth]],
     closed |-> contour.closed]

\* the contours of every glyph below glyph g, one copy for each path
RECURSIVE PathContours(_, _)
RECURSIVE PathContoursOf(_, _, _)
PathContoursOf(cs, chain, k) ==
    IF k > Len(cs) THEN <<>>
    ELSE PathContours(cs[k].base_glyph, Append(chain, EffectiveTransform(cs, k)))
         \o PathContoursOf(cs, chain, k + 1)

PathContours(g, chain) ==
    IF glyph_layer(g) = None THEN <<>>
    ELSE LET l == Unwrap(glyph_layer(g))
         IN  [k \in DOMAIN l.contours |-> ChainShape(l.contours[k], chain)]
             \o PathContoursOf(RankedComponents(l), chain, 1)

SeqBag(s) == [x \in Range(s) |-> Cardinality({k \in DOMAIN s : s[k] = x})]

\* C4: on an acyclic component graph the flattened result holds exactly the
\* contours of the glyphs reachable through the layer's components, none
\* missing and none extra, every point mapped by the transforms of the
\* components on its path, the innermost applied first.
C4_Completeness ==
    \A n \in DOMAIN results :
        Acyclic(results[n].layer, results[n].root_glyph_name)
        => SeqBag(Shapes(flatten_component_contours(results[n].out)))
              = SeqBag(PathContoursOf(RankedComponents(results[n].layer), <<>>, 1))

\* B twice removed from C, once directly, under transforms that do not commute
C4_Witness ==
    /\ GraphIs(<<"B", "C">>, <<"C">>, <<>>)
    /\ ~Missing("C")
    /\ OwnContours("B") = 2
    /\ Len(results) = 1
    /\ Acyclic(results[1].layer, "A")
    /\ Len(flatten_component_contours(results[1].out)) = 4

-----------------------------------------------------------------------------
(* C5: one instance per direct component, by ascending id *)

\* C5: the result has one instance per direct component of the layer, by
\* ascending component id whatever the order the map iterates in, each with
\* its component's base glyph name; the instance of a missing or cyclic base
\* glyph is there with zero contours.
C5_OneInstancePerComponent ==
    \A n \in DOMAIN results :
        LET r == results[n]
            cs == RankedComponents(r.layer)
        IN  /\ Len(r.out) = Len(r.layer.components)
            /\ \A k \in DOMAIN r.out :
                  /\ r.out[k].component_glyph_name = cs[k].base_glyph
                  /\ (Missing(cs[k].base_glyph) \/ cs[k].base_glyph = r.root_glyph_name)
                        => r.out[k].contours = <<>>

\* a cyclic, a resolvable and a missing component, on a map that iterates backwards
C5_Witness ==
    /\ GraphIs(<<"A", "B", "C">>, <<>>, <<>>)
    /\ Missing("C")
    /\ hashSeed = 1
    /\ Len(results) = 1
    /\ results[1].layer = RootLayer
    /\ Len(results[1].out) = 3
    /\ results[1].out[1].component_glyph_name = "A"
    /\ results[1].out[2].component_glyph_name = "B"
    /\ results[1].out[2].contours # <<>>
    /\ results[1].out[3].contours = <<>>

-----------------------------------------------------------------------------
(* C6: anchor attachment *)

\* the font is the one of variant v on the graph A -> a, B -> b, C -> c
Scenario(v, a, b, c) ==
    /\ GraphIs(a, b, c)
    /\ font = BuildFont(v, [g \in Names |-> CASE g = "A" -> a [] g = "B" -> b [] g = "C" -> c])

\* the anchors `_X` of the glyph's layer for which an `X` is among the placed
AttachingAnchors(g, placed) ==
    IF Missing(g) THEN {}
    ELSE {a \in Range(Unwrap(glyph_layer(g)).anchors) :
             /\ a.named
             /\ Len(a.name) >= 2
             /\ a.name[1] = "_"
             /\ \E k \in DOMAIN placed : <<"_">> \o placed[k].name = a.name}

TargetsOf(a, placed) == {k \in DOMAIN placed : <<"_">> \o placed[k].name = a.name}

ProbePoints == {<<0, 0>>, <<1, 0>>, <<0, 1>>, <<7, -3>>}

\* transform t is transform e followed by the translation by (dx, dy)
FollowedByTranslation(t, e, dx, dy) ==
    \A p \in ProbePoints :
        transform_point(t, p[1], p[2])
            = <<transform_point(e, p[1], p[2])[1] + dx, transform_point(e, p[1], p[2])[2] + dy>>

\* mark C (_top at (5,0), contour (0,0)-(10,0)) after base B (top at (100,200))
ScenarioC6 == Scenario(1, <<"B", "C">>, <<>>, <<>>)

-----------------------------------------------------------------------------
(* C7: the latest placed anchor wins *)

\* the index of the anchor named as the target of a that was placed last
LatestTarget(a, placed) ==
    CHOOSE k \in TargetsOf(a, placed) : \A j \in TargetsOf(a, placed) : j <= k

\* base B, then mark C twice (C has _top at (5,0) and top at (5,20))
ScenarioC7 == Scenario(1, <<"B", "C", "C">>, <<>>, <<>>)

\* C7: a _X anchor attaches to the X placed most recently: of all the X
\* anchors the earlier siblings appended, the one appended last is where the
\* effective transform puts _X; with base, mark, mark the second mark sits on
\* the first mark's placed top, its contour at y = 220.
C7_LatestPlacedWins ==
    /\ cur # None =>
          LET c == Unwrap(cur)
              M == AttachingAnchors(c.component.base_glyph, c.placed_before)
          IN  M # {} =>
                 \E a \in M :
                    LET X == c.placed_before[LatestTarget(a, c.placed_before)]
                    IN  transform_point(c.component_transform, a.x, a.y) = <<X.x, X.y>>
    /\ \A n \in DOMAIN results :
          (ScenarioC7 /\ results[n].layer = RootLayer) =>
              /\ Len(results[n].out) = 3
              /\ Coords(results[n].out[2].contours[1]) = <<<<95, 200>>, <<105, 200>>>>
              /\ Coords(results[n].out[3].contours[1]) = <<<<95, 220>>, <<105, 220>>>>

\* the second mark found two placed anchors named top
C7_Witness ==
    /\ ScenarioC7
    /\ Len(results) = 1
    /\ results[1].layer = RootLayer
    /\ Len(results[1].out) = 3
    /\ results[1].out[3].contours[1].points[1].y = 220

-----------------------------------------------------------------------------
(* C8: without a pairing the explicit transform is used unchanged *)

\* a single component C under translate(30,40); the root has anchors top and _top
ScenarioC8Translate == Scenario(2, <<"C">>, <<>>, <<>>)

\* base B (top) then mark C (top_extra, "_", an anchor without name); the
\* root has anchors parent_top and top
ScenarioC8Hints == Scenario(3, <<"B", "C">>, <<>>, <<>>)

\* the position of the component in its layer, by ascending id
RankIn(l, component) ==
    CHOOSE k \in DOMAIN l.components : RankedComponents(l)[k] = component

-----------------------------------------------------------------------------
(* C9: a missing base glyph or an empty layer *)

\* the glyph has contours and no components
Leaf(g) ==
    /\ ~Missing(g)
    /\ Unwrap(glyph_layer(g)).components = <<>>
    /\ Unwrap(glyph_layer(g)).contours # <<>>

\* C9: a component whose base glyph the provider does not resolve, or whose
\* layer has neither contours nor components, yields zero contours and no
\* error: the call returns one instance for every component and the other
\* components have their contours.
C9_MissingOrEmptyYieldsNothing ==
    \A n \in DOMAIN results :
        LET r == results[n]
            cs == RankedComponents(r.layer)
        IN  /\ Len(r.out) = Len(cs)
            /\ \A k \in DOMAIN r.out :
                  LET g == cs[k].base_glyph
                  IN  /\ (Missing(g) \/ EmptyGlyph(g)) => r.out[k].contours = <<>>
                      /\ (Leaf(g) /\ g # r.root_glyph_name) =>
                            Len(r.out[k].contours) = Len(Unwrap(glyph_layer(g)).contours)
                      /\ (~Missing(g) /\ g # r.root_glyph_name) =>
                            Len(r.out[k].contours) >= Len(Unwrap(glyph_layer(g)).contours)

\* a missing component between two that resolve
C9_Witness ==
    /\ GraphIs(<<"B", "C", "B">>, <<>>, <<>>)
    /\ Missing("C")
    /\ Leaf("B")
    /\ Len(results) = 1
    /\ Len(results[1].out) = 3
    /\ results[1].out[1].contours # <<>>
    /\ results[1].out[2].contours = <<>>
    /\ results[1].out[3].contours # <<>>

-----------------------------------------------------------------------------
(* C10: determinism *)

-----------------------------------------------------------------------------
(* C11: flatten_component_contours_for_layer *)

\* the number of contours in the instances before the k-th
RECURSIVE ContoursBefore(_, _)
ContoursBefore(o, k) ==
    IF k = 1 THEN 0 ELSE ContoursBefore(o, k - 1) + Len(o[k - 1].contours)

\* C11: the value of flatten_component_contours_for_layer is the contour
\* lists of the instances resolve_component_instances_for_layer returns for
\* the same arguments, one after the other in the order of the instances
\* (the point ids, fresh in every call, aside), and none of its contours is a
\* contour of the root layer itself.
C11_FlattenIsConcatenation ==
    \A n \in DOMAIN flattened :
        /\ \A m \in DOMAIN results :
              (/\ flattened[n].layer = results[m].layer
               /\ flattened[n].root_glyph_name = results[m].root_glyph_name)
              => LET f == flattened[n].contours
                     o == results[m].out
                 IN  /\ Len(f) = ContoursBefore(o, Len(o) + 1)
                     /\ \A k \in DOMAIN o : \A j \in DOMAIN o[k].contours :
                           Shape(f[ContoursBefore(o, k) + j]) = Shape(o[k].contours[j])
        /\ \A k \in DOMAIN flattened[n].contours :
              \A j \in DOMAIN flattened[n].layer.contours :
                 Shape(flattened[n].contours[k]) # Shape(flattened[n].layer.contours[j])

\* both functions returned for a layer with contours of its own and two
\* components that resolve to different contours
C11_Witness ==
    /\ Len(flattened) = 1
    /\ Len(results) = 1
    /\ flattened[1].layer = results[1].layer
    /\ flattened[1].layer.contours # <<>>
    /\ Len(results[1].out) = 2
    /\ results[1].out[1].contours # <<>>
    /\ results[1].out[2].contours # <<>>
    /\ Shapes(results[1].out[1].contours) # Shapes(results[1].out[2].contours)
    /\ Len(flattened[1].contours) >= 3

-----------------------------------------------------------------------------
(* Functions without state.  A behaviour of their specifications starts    *)
(* with the arguments of one call and its one step is the call.            *)

\* no font and no resolver call
NoFont ==
    /\ font = <<>>
    /\ hashSeed = 0
    /\ ResolverIdle

Arguments(fn, args) == [fn |-> fn, args |-> args, ret |-> None]

Called(fn) == call # None /\ call.fn = fn /\ call.ret # None

\* the step of a call: the value v is returned
Returns(fn, v) ==
    /\ call # None
    /\ call.fn = fn
    /\ call.ret = None
    /\ call' = [call EXCEPT !.ret = Some(v)]
    /\ UNCHANGED <<resolverVars, dep_graph, added, walk, iter>>

-----------------------------------------------------------------------------
(* C12: compose_transform *)

\* Transform values: those of the component transforms, a translation, a
\* shear, a reflection and a projection onto a line
Matrices ==
    {to_matrix(TransformPool[k]) : k \in DOMAIN TransformPool}
    \cup {Transform_identity,
          Transform_translate(3, -1),
          [xx |-> 1, xy |-> 1, yx |-> 0, yy |-> 1, dx |-> 0, dy |-> 2],
          [xx |-> 0, xy |-> 1, yx |-> 1, yy |-> 0, dx |-> -4, dy |-> 0],
          [xx |-> 2, xy |-> 0, yx |-> 0, yy |-> 0, dx |-> 1, dy |-> 1]}

InitCompose ==
    /\ NoFont
    /\ dep_graph = [uses |-> <<>>, used_by |-> <<>>]
    /\ added = {}
    /\ walk = None
    /\ iter = None
    /\ \E a, b, c \in Matrices : call = Arguments("compose_transform", <<a, b, c>>)

\* compose_transform(a, b), then with c on either side
Compose ==
    \E a, b, c \in Matrices :
        /\ call # None
        /\ call.args = <<a, b, c>>
        /\ Returns("compose_transform",
                   [ab |-> compose_transform(a, b),
                    ab_c |-> compose_transform(compose_transform(a, b), c),
                    a_bc |-> compose_transform(a, compose_transform(b, c))])

NextCompose == Compose

SpecCompose == InitCompose /\ [][NextCompose]_vars

\* C12: compose_transform(outer, inner) maps a point to where outer takes the
\* point inner made of it, and composition is associative: composed with a
\* third transform on either side it maps every point to the same place.
C12_ComposeAppliesInnerFirst ==
    Called("compose_transform") =>
        LET a == call.args[1]
            b == call.args[2]
            r == Unwrap(call.ret)
        IN  \A p \in ProbePoints :
               /\ transform_point(r.ab, p[1], p[2])
                     = transform_point(a, transform_point(b, p[1], p[2])[1],
                                          transform_point(b, p[1], p[2])[2])
               /\ transform_point(r.ab_c, p[1], p[2]) = transform_point(r.a_bc, p[1], p[2])

\* three transforms no two of which commute were composed
C12_Witness ==
    /\ Called("compose_transform")
    /\ \A i, j \in 1..3 :
          i # j => \E p \in ProbePoints :
                      transform_point(compose_transform(call.args[i], call.args[j]), p[1], p[2])
                         # transform_point(compose_transform(call.args[j], call.args[i]), p[1], p[2])

-----------------------------------------------------------------------------
(* shift-core dependency_graph.rs.  A HashMap<String, HashSet<String>> is  *)
(* a function from its keys to sets of names.                              *)

\* greatest number of edges: components in the font and add_edge calls together
MaxEdges == 3

\* DependencyGraph::default()
DependencyGraph_default == [uses |-> <<>>, used_by |-> <<>>]

\* map.entry(key).or_default().insert(value)
entry_or_default_insert(map, key, value) ==
    [k \in DOMAIN map \cup {key} |->
        IF k = key THEN (IF key \in DOMAIN map THEN map[key] ELSE {}) \cup {value}
        ELSE map[k]]

\* Faulty variant: the reverse index is not maintained
\* (C26_DependentsCoverReads fails with it).
add_edge_forward_only(g, composite, component) ==
    [uses |-> entry_or_default_insert(g.uses, composite, component),
     used_by |-> g.used_by]

\* DependencyGraph::add_edge
add_edge(g, composite, component) ==
    [uses |-> entry_or_default_insert(g.uses, composite, component),
     used_by |-> entry_or_default_insert(g.used_by, component, composite)]

\* font.glyphs(), a HashMap, in the order it iterates
GlyphOrder == <<"A", "B", "C">>
glyphs_iter(f) == HashOrder(SelectSeq(GlyphOrder, LAMBDA name : name \in DOMAIN f))

\* Faulty variant: only the preferred layer of a glyph is scanned
\* (C14_IndexesAreInverse fails with it).
preferred_layer_only(glyph) == preferred_layer_for_glyph(glyph)

\* glyph.layers().values()
layers_values(glyph) == HashOrder(glyph.layers)

\* `for component in layer.components_iter() { graph.add_edge(..) }`
RECURSIVE rebuild_components(_, _, _)
rebuild_components(g, composite_name, cs) ==
    IF cs = <<>> THEN g
    ELSE rebuild_components(add_edge(g, composite_name, Head(cs).base_glyph),
                            composite_name, Tail(cs))

RECURSIVE rebuild_layers(_, _, _)
rebuild_layers(g, composite_name, ls) ==
    IF ls = <<>> THEN g
    ELSE rebuild_layers(rebuild_components(g, composite_name, components_iter(Head(ls))),
                        composite_name, Tail(ls))

RECURSIVE rebuild_glyphs(_, _, _)
rebuild_glyphs(g, f, names) ==
    IF names = <<>> THEN g
    ELSE rebuild_glyphs(rebuild_layers(g, Head(names), layers_values(f[Head(names)])),
                        f, Tail(names))

\* DependencyGraph::rebuild
rebuild(f) == rebuild_glyphs(DependencyGraph_default, f, glyphs_iter(f))

\* Faulty variant: the root is taken like any other dependent
\* (C13_TransitiveDependents fails with it).
is_root_never(dependent, glyph_name) == FALSE

\* `if dependent == glyph_name { continue; }`
is_root(dependent, glyph_name) == dependent = glyph_name

\* `for dependent in dependents { .. }` over the dependents in the order the
\* set iterates; w holds result and stack
RECURSIVE dependents_loop(_, _, _)
dependents_loop(w, glyph_name, dependents) ==
    IF dependents = <<>> THEN w
    ELSE LET dependent == Head(dependents)
         IN  IF is_root(dependent, glyph_name)
             THEN dependents_loop(w, glyph_name, Tail(dependents))
             ELSE IF dependent \notin w.result
                  THEN dependents_loop([w EXCEPT !.result = @ \cup {dependent},
                                                 !.stack = Append(@, dependent)],
                                       glyph_name, Tail(dependents))
                  ELSE dependents_loop(w, glyph_name, Tail(dependents))

\* the orders in which a set can iterate
Orders(S) ==
    {s \in [1..Cardinality(S) -> S] : \A i, j \in 1..Cardinality(S) : i # j => s[i] # s[j]}

(* Fonts of the dependency index: glyphs A, B and C, A with two layers, and *)
(* a component for every slot <<glyph, layer, base glyph>> of the font.     *)

Slots == {<<"A", 1>>, <<"A", 2>>, <<"B", 1>>, <<"C", 1>>} \X Names

SlotComponents(S, g, k) ==
    LET bases == SelectSeq(GlyphOrder, LAMBDA b : <<<<g, k>>, b>> \in S)
    IN  [j \in DOMAIN bases |->
            [id |-> 100 * NameIndex(g) + 10 * k + j, base_glyph |-> bases[j],
             transform |-> DecomposedTransform_default]]

\* the first layer of A has two contours, every other layer one
SlotLayer(S, g, k) ==
    [contours |-> IF g = "A" /\ k = 1
                  THEN <<two_point_contour(100, 0, 0, 10, 0), two_point_contour(110, 0, 5, 10, 5)>>
                  ELSE <<two_point_contour(100 * NameIndex(g) + 10 * k, 0, 0, 10, 0)>>,
     components |-> SlotComponents(S, g, k),
     anchors |-> <<>>]

SlotFont(S) ==
    [g \in Names |->
        [layers |-> IF g = "A" THEN <<SlotLayer(S, g, 1), SlotLayer(S, g, 2)>>
                    ELSE <<SlotLayer(S, g, 1)>>]]

SlotSets == {S \in SUBSET Slots : Cardinality(S) <= MaxEdges}

\* the number of components in the font
FontComponents(f) ==
    Cardinality({<<g, k, j>> \in (DOMAIN f) \X (1..2) \X (1..3) :
                    k \in DOMAIN f[g].layers /\ j \in DOMAIN f[g].layers[k].components})

InitGraph ==
    /\ \E S \in SlotSets : font = SlotFont(S)
    /\ hashSeed \in {0, 1}
    /\ ResolverIdle
    /\ dep_graph = rebuild(font)
    /\ added = {}
    /\ walk = None
    /\ iter = None
    /\ call = None

WalkInProgress == walk # None /\ ~walk.returned

\* DependencyGraph::rebuild(font), the graph built anew
Rebuild ==
    /\ ~WalkInProgress
    /\ dep_graph' = rebuild(font)
    /\ added' = {}
    /\ walk' = None
    /\ UNCHANGED <<resolverVars, iter, call>>

\* DependencyGraph::add_edge
AddEdge ==
    /\ ~WalkInProgress
    /\ \E composite, component \in Names :
          /\ <<composite, component>> \notin added
          /\ Cardinality(added) + FontComponents(font) < MaxEdges
          /\ dep_graph' = add_edge(dep_graph, composite, component)
          /\ added' = added \cup {<<composite, component>>}
    /\ walk' = None
    /\ UNCHANGED <<resolverVars, iter, call>>

\* dependents_recursive, up to its loop
DependentsCall ==
    /\ ~WalkInProgress
    /\ \E glyph_name \in Names :
          walk' = [glyph_name |-> glyph_name, result |-> {}, stack |-> <<glyph_name>>,
                   returned |-> FALSE]
    /\ UNCHANGED <<resolverVars, dep_graph, added, iter, call>>

\* one pass of `while let Some(current) = stack.pop()`
DependentsPop ==
    /\ WalkInProgress
    /\ walk.stack # <<>>
    /\ LET current == walk.stack[Len(walk.stack)]
           popped == [walk EXCEPT !.stack = SubSeq(@, 1, Len(@) - 1)]
       IN  IF current \notin DOMAIN dep_graph.used_by
           THEN walk' = popped
           ELSE \E dependents \in Orders(dep_graph.used_by[current]) :
                   walk' = dependents_loop(popped, walk.glyph_name, dependents)
    /\ UNCHANGED <<resolverVars, dep_graph, added, iter, call>>

\* `result` is returned
DependentsReturn ==
    /\ WalkInProgress
    /\ walk.stack = <<>>
    /\ walk' = [walk EXCEPT !.returned = TRUE]
    /\ UNCHANGED <<resolverVars, dep_graph, added, iter, call>>

NextGraph == Rebuild \/ AddEdge \/ DependentsCall \/ DependentsPop \/ DependentsReturn

SpecGraph == InitGraph /\ [][NextGraph]_vars

-----------------------------------------------------------------------------
(* C13: dependents_recursive *)

\* the edges composite -> component of the forward index
UsesEdges == {<<a, b>> \in Names \X Names : a \in DOMAIN dep_graph.uses /\ b \in dep_graph.uses[a]}

\* the names that reach a name of D by one or more edges, D included
RECURSIVE ReachingUp(_)
ReachingUp(D) ==
    LET E == D \cup {a \in Names : \E b \in D : <<a, b>> \in UsesEdges}
    IN  IF E = D THEN D ELSE ReachingUp(E)

TransitiveDependents(g) == ReachingUp({a \in Names : <<a, g>> \in UsesEdges})

\* what the traversal still has to do
WalkMeasure(w) == 2 * Cardinality(Names \ w.result) + Len(w.stack)

\* C13: dependents_recursive(g) returns the names that reach g by one or more
\* uses-edges, without g itself also when g is on a cycle or uses itself, and
\* the traversal terminates: every pass of its loop decreases a natural number.
C13_TransitiveDependents ==
    /\ []((walk # None /\ walk.returned)
            => walk.result = TransitiveDependents(walk.glyph_name) \ {walk.glyph_name})
    /\ [][(WalkInProgress /\ walk.stack # <<>>)
            => /\ WalkMeasure(walk') >= 0
               /\ WalkMeasure(walk') < WalkMeasure(walk)]_vars

\* the dependents of a glyph on a cycle of three glyphs, returned
C13_Witness ==
    /\ walk # None
    /\ walk.returned
    /\ walk.glyph_name \in TransitiveDependents(walk.glyph_name)
    /\ Cardinality(walk.result) = 2

-----------------------------------------------------------------------------
(* C14: the two indexes of the dependency graph *)

\* the pairs <<a, b>> with a component of base glyph b in some layer of a
FontEdges ==
    {<<a, b>> \in Names \X Names :
        /\ a \in DOMAIN font
        /\ \E k \in DOMAIN font[a].layers :
              \E j \in DOMAIN font[a].layers[k].components :
                 font[a].layers[k].components[j].base_glyph = b}

\* C14: after rebuild(font) and any add_edge calls the two indexes are
\* inverse to each other (b is in uses[a] exactly when a is in used_by[b]),
\* and the edge a -> b is in the graph exactly when some layer of a, preferred
\* or not, has a component of base glyph b, or add_edge(a, b) was called.
C14_IndexesAreInverse ==
    /\ \A a, b \in Names :
          (a \in DOMAIN dep_graph.uses /\ b \in dep_graph.uses[a])
             <=> (b \in DOMAIN dep_graph.used_by /\ a \in dep_graph.used_by[b])
    /\ UsesEdges = FontEdges \cup added

\* an edge that only the layer of A that is not preferred has, and an added edge
C14_Witness ==
    /\ font["A"].layers[1].components = <<>>
    /\ font["A"].layers[2].components # <<>>
    /\ preferred_layer_for_glyph(font["A"]) = Some(font["A"].layers[1])
    /\ added # {}
    /\ added \cap FontEdges = {}
    /\ \E b \in Names : <<"A", b>> \in UsesEdges \ added

-----------------------------------------------------------------------------
(* shift-ir segment.rs: CurveSegmentIter.  Indexes are from 0 as in the     *)
(* program; the point of index i is points[i + 1].                          *)

\* greatest number of points of a contour handed to the iterator
MaxPoints == 6

\* Point::is_on_curve
is_on_curve(point) == point.point_type \in {"OnCurve", "QCurve"}

\* CurveSegmentIter::new
CurveSegmentIter_new(points, closed) ==
    [points |-> points, closed |-> closed, pos |-> 0,
     limit |-> IF closed THEN Len(points)
               ELSE IF Len(points) = 0 THEN 0 ELSE Len(points) - 1]

\* Faulty variant: an index past the end is never wrapped
\* (C16_ClosedWrapsOpenStops fails with it).
get_without_wrap(it, index) ==
    IF index < Len(it.points) THEN Some(it.points[index + 1]) ELSE None

\* CurveSegmentIter::get
get(it, index) ==
    IF index < Len(it.points) THEN Some(it.points[index + 1])
    ELSE IF it.closed /\ it.points # <<>>
         THEN Some(it.points[(index % Len(it.points)) + 1])
         ELSE None

Line(p1, p2) == [kind |-> "Line", points |-> <<p1, p2>>]
Quad(p1, p2, p3) == [kind |-> "Quad", points |-> <<p1, p2, p3>>]
Cubic(p1, p2, p3, p4) == [kind |-> "Cubic", points |-> <<p1, p2, p3, p4>>]

\* CurveSegmentIter::next: the item returned and the iterator afterwards
RECURSIVE next(_)
next(it) ==
    IF ~(it.pos < it.limit) THEN [item |-> None, it |-> it]
    ELSE LET p1 == get(it, it.pos)
             p2 == get(it, it.pos + 1)
             p3 == get(it, it.pos + 2)
             p4 == get(it, it.pos + 3)
         IN  IF p1 = None \/ p2 = None THEN [item |-> None, it |-> it]
             ELSE IF is_on_curve(Unwrap(p1)) /\ is_on_curve(Unwrap(p2))
                  THEN [item |-> Some(Line(Unwrap(p1), Unwrap(p2))),
                        it |-> [it EXCEPT !.pos = @ + 1]]
             ELSE IF is_on_curve(Unwrap(p1)) /\ ~is_on_curve(Unwrap(p2))
                     /\ p3 # None /\ is_on_curve(Unwrap(p3))
                  THEN [item |-> Some(Quad(Unwrap(p1), Unwrap(p2), Unwrap(p3))),
                        it |-> [it EXCEPT !.pos = @ + 2]]
             ELSE IF is_on_curve(Unwrap(p1)) /\ ~is_on_curve(Unwrap(p2))
                     /\ p3 # None /\ p4 # None
                  THEN [item |-> Some(Cubic(Unwrap(p1), Unwrap(p2), Unwrap(p3), Unwrap(p4))),
                        it |-> [it EXCEPT !.pos = @ + 3]]
             ELSE next([it EXCEPT !.pos = @ + 1])

\* `for segment in CurveSegmentIter::new(points, closed)`: the segments in order
RECURSIVE collect(_)
collect(it) ==
    Once(next(it), LAMBDA r :
        IF r.item = None THEN <<>> ELSE <<Unwrap(r.item)>> \o collect(r.it))

segments_of(points, closed) == collect(CurveSegmentIter_new(points, closed))

PointTypes == {"OnCurve", "OffCurve", "QCurve"}

\* the point of index i (from 1), its coordinates its own
IndexedPoint(i, point_type) ==
    [id |-> i, x |-> 10 * i, y |-> i * i, point_type |-> point_type, smooth |-> FALSE]

\* the sequences of n points of the given types
PointSequence(n, types) == [i \in 1..n |-> IndexedPoint(i, types[i])]

InitSegments ==
    /\ NoFont
    /\ dep_graph = DependencyGraph_default
    /\ added = {}
    /\ walk = None
    /\ call = None
    /\ \E n \in 0..MaxPoints, closed \in BOOLEAN :
          \E types \in [1..n -> PointTypes] :
              iter = [it |-> CurveSegmentIter_new(PointSequence(n, types), closed),
                      yielded |-> <<>>, exhausted |-> FALSE]

\* a call of next() on an iterator that did not yet return None
IterNext ==
    /\ iter # None
    /\ ~iter.exhausted
    /\ LET r == next(iter.it)
       IN  iter' = [it |-> r.it,
                    yielded |-> IF r.item = None THEN iter.yielded
                                ELSE Append(iter.yielded, Unwrap(r.item)),
                    exhausted |-> r.item = None]
    /\ UNCHANGED <<resolverVars, dep_graph, added, walk, call>>

NextSegments == IterNext

SpecSegments == InitSegments /\ [][NextSegments]_vars

-----------------------------------------------------------------------------
(* C15: the kinds of segment *)

OnOff(segment) == [k \in DOMAIN segment.points |-> is_on_curve(segment.points[k])]

\* C15: on every point sequence a Line is yielded only for on-curve,
\* on-curve; a Quad only for on, off, on; a Cubic only for on, off, off, on:
\* every segment starts and ends on the curve and is off the curve between.
C15_SegmentKinds ==
    iter # None =>
        \A k \in DOMAIN iter.yielded :
            LET s == iter.yielded[k]
            IN  /\ s.kind = "Line" => OnOff(s) = <<TRUE, TRUE>>
                /\ s.kind = "Quad" => OnOff(s) = <<TRUE, FALSE, TRUE>>
                /\ s.kind = "Cubic" => OnOff(s) = <<TRUE, FALSE, FALSE, TRUE>>

-----------------------------------------------------------------------------
(* C16: closed contours wrap, open contours stop *)

\* the index (from 0) of a point of the iterator's sequence
IndexOf(point) == point.id - 1

AllOnCurve(points) == \A k \in DOMAIN points : is_on_curve(points[k])

\* C16: the iterator of a closed contour wraps the indexes modulo the number
\* of points, that of an open contour reads no point past the last: every
\* segment is made of the points that follow its first point, modulo the
\* number of points when the contour is closed and below it when it is open.
\* n on-curve points give n Lines when closed, the k-th from point k-1 to
\* point k modulo n (the last one back to point 0), and n-1 Lines when open.
C16_ClosedWrapsOpenStops ==
    iter # None =>
        LET points == iter.it.points
            n == Len(points)
        IN  /\ \A k \in DOMAIN iter.yielded :
                  LET s == iter.yielded[k]
                      first == IndexOf(s.points[1])
                  IN  /\ \A j \in DOMAIN s.points :
                            s.points[j] = points[((first + j - 1) % n) + 1]
                      /\ ~iter.it.closed => first + Len(s.points) - 1 < n
            /\ (iter.exhausted /\ AllOnCurve(points)) =>
                  /\ Len(iter.yielded) = (IF iter.it.closed THEN n ELSE IF n = 0 THEN 0 ELSE n - 1)
                  /\ \A k \in DOMAIN iter.yielded :
                        iter.yielded[k] = Line(points[k], points[(k % n) + 1])

\* a closed contour of three on-curve points gave its third Line, back to point 0
C16_Witness ==
    /\ iter # None
    /\ iter.exhausted
    /\ iter.it.closed
    /\ Len(iter.it.points) = 3
    /\ AllOnCurve(iter.it.points)
    /\ Len(iter.yielded) = 3
    /\ iter.yielded[3].points = <<iter.it.points[3], iter.it.points[1]>>

-----------------------------------------------------------------------------
(* shift-core curve.rs: segment_bounds.                                     *)
(* Coordinates are integers.  The values the program computes from them in  *)
(* f64 are kept exact: a value is (u + w * sqrt(d)) / q, in lowest terms,   *)
(* q > 0, d free of squares and greater than 1 or w = 0 = d, so that equal  *)
(* values are equal records.  The values of one computation have one d.     *)

\* greatest x- and y-coordinate of the points of a segment
MaxX == 3
MaxY == 1

abs(n) == IF n < 0 THEN -n ELSE n

signum(n) == IF n < 0 THEN -1 ELSE IF n = 0 THEN 0 ELSE 1

RECURSIVE gcd(_, _)
gcd(m, n) == IF n = 0 THEN m ELSE gcd(n, m % n)

\* the greatest k from `from` on with k * k dividing d, times what was found
RECURSIVE SquarePart(_, _)
SquarePart(d, from) ==
    IF from * from > d THEN 1
    ELSE IF d % (from * from) = 0 THEN from * SquarePart(d \div (from * from), from)
    ELSE SquarePart(d, from + 1)

\* the value (u + w * sqrt(d)) / q, q # 0, d >= 0
Value(u, w, d, q) ==
    LET k == IF w = 0 \/ d = 0 THEN 1 ELSE SquarePart(d, 2)
        d1 == IF w = 0 \/ d = 0 THEN 0 ELSE d \div (k * k)
        u2 == IF d1 = 1 THEN u + w * k ELSE u
        w2 == IF d1 <= 1 THEN 0 ELSE w * k
        d2 == IF d1 <= 1 THEN 0 ELSE d1
        g == gcd(gcd(abs(u2), abs(w2)), abs(q))
        s == signum(q)
    IN  [u |-> s * (u2 \div g), w |-> s * (w2 \div g), d |-> d2, q |-> abs(q) \div g]

f64(n) == Value(n, 0, 0, 1)

FieldOf(a, b) == IF a.d # 0 THEN a.d ELSE b.d

add(a, b) ==
    Once2(a, b, LAMBDA x, y :
        Value(x.u * y.q + y.u * x.q, x.w * y.q + y.w * x.q, FieldOf(x, y), x.q * y.q))
neg(a) == Once(a, LAMBDA x : [x EXCEPT !.u = -x.u, !.w = -x.w])
sub(a, b) == add(a, neg(b))
mul(a, b) ==
    Once2(a, b, LAMBDA x, y :
        Value(x.u * y.u + x.w * y.w * FieldOf(x, y), x.u * y.w + x.w * y.u, FieldOf(x, y),
              x.q * y.q))
\* a / n for an integer n # 0
div(a, n) == Once(a, LAMBDA x : Value(x.u, x.w, x.d, x.q * n))
\* f64::sqrt of an integer n >= 0
sqrt(n) == Value(0, 1, n, 1)

\* the sign of a value
sign(a) ==
    Once(a, LAMBDA x :
        IF x.w = 0 THEN signum(x.u)
        ELSE IF x.u = 0 \/ signum(x.u) = signum(x.w) THEN signum(x.w)
        ELSE IF x.u * x.u > x.w * x.w * x.d THEN signum(x.u) ELSE signum(x.w))

\* f64::MAX and f64::MIN stand above and below every value computed from
\* coordinates; they are the two records with q = 0
f64_MAX_zero == f64(0)

f64_MAX == [u |-> 1, w |-> 0, d |-> 0, q |-> 0]
f64_MIN == [u |-> -1, w |-> 0, d |-> 0, q |-> 0]

lt(a, b) ==
    Once2(a, b, LAMBDA x, y :
        IF x.q # 0 /\ y.q # 0 THEN sign(sub(x, y)) < 0
        ELSE (IF x.q = 0 THEN x.u ELSE 0) < (IF y.q = 0 THEN y.u ELSE 0))
\* f64::min, f64::max
min(a, b) == Once2(a, b, LAMBDA x, y : IF lt(y, x) THEN y ELSE x)
max(a, b) == Once2(a, b, LAMBDA x, y : IF lt(x, y) THEN y ELSE x)

\* line_bounds
line_bounds(x0, y0, x1, y1) ==
    <<min(f64(x0), f64(x1)), min(f64(y0), f64(y1)),
      max(f64(x0), f64(x1)), max(f64(y0), f64(y1))>>

\* find_quad_extremum_1d: |denom| < 1e-12 is denom = 0 for an integer
find_quad_extremum_1d(p0, c, p1) ==
    LET denom == p0 - 2 * c + p1
    IN  IF denom = 0 THEN None
        ELSE LET t == div(f64(p0 - c), denom)
             IN  Once(t, LAMBDA v : IF lt(f64(0), v) /\ lt(v, f64(1)) THEN Some(v) ELSE None)

\* find_cubic_extrema_1d: the roots kept, in the order of the pushes
find_cubic_extrema_1d(p0, c0, c1, p1) ==
    LET a == -3 * p0 + 9 * c0 - 9 * c1 + 3 * p1
        b == 6 * p0 - 12 * c0 + 6 * c1
        c == -3 * p0 + 3 * c0
        inside(t) == lt(f64(0), t) /\ lt(t, f64(1))
        discriminant == b * b - 4 * a * c
    IN  IF a = 0
        THEN IF b # 0 /\ inside(div(f64(-c), b)) THEN <<div(f64(-c), b)>> ELSE <<>>
        ELSE IF discriminant < 0 THEN <<>>
        ELSE Once(sqrt(discriminant), LAMBDA sqrt_d :
                 Once2(div(add(f64(-b), sqrt_d), 2 * a), div(sub(f64(-b), sqrt_d), 2 * a),
                       LAMBDA t1, t2 : (IF inside(t1) THEN <<t1>> ELSE <<>>)
                                       \o (IF inside(t2) THEN <<t2>> ELSE <<>>)))

\* Faulty variant: the value at the extremum is taken to be the control value
\* (C18_BoundsWithinHull fails with it).
quad_eval_1d_control(p0, c, p1, t) == f64(c)

\* quad_eval_1d
quad_eval_1d(p0, c, p1, t) ==
    Once(sub(f64(1), t), LAMBDA mt :
        add(add(mul(mul(mt, mt), f64(p0)),
                mul(mul(mul(f64(2), mt), t), f64(c))),
            mul(mul(t, t), f64(p1))))

\* cubic_eval_1d
cubic_eval_1d(p0, c0, c1, p1, t) ==
    Once(sub(f64(1), t), LAMBDA mt :
        add(add(add(mul(mul(mul(mt, mt), mt), f64(p0)),
                    mul(mul(mul(mul(f64(3), mt), mt), t), f64(c0))),
                mul(mul(mul(mul(f64(3), mt), t), t), f64(c1))),
            mul(mul(mul(t, t), t), f64(p1))))

\* the range of one axis of quad_bounds
quad_bounds_1d(p0, c, p1) ==
    LET lo == min(f64(p0), f64(p1))
        hi == max(f64(p0), f64(p1))
    IN  Once(find_quad_extremum_1d(p0, c, p1), LAMBDA t :
            IF t = None THEN <<lo, hi>>
            ELSE Once(quad_eval_1d(p0, c, p1, Unwrap(t)), LAMBDA v :
                     <<min(lo, v), max(hi, v)>>))

\* quad_bounds
quad_bounds(x0, y0, cx, cy, x1, y1) ==
    Once2(quad_bounds_1d(x0, cx, x1), quad_bounds_1d(y0, cy, y1), LAMBDA rx, ry :
        <<rx[1], ry[1], rx[2], ry[2]>>)

\* the loop `for t in find_cubic_extrema_1d(..)` of cubic_bounds
RECURSIVE cubic_bounds_loop(_, _, _)
cubic_bounds_loop(ps, roots, range) ==
    IF roots = <<>> THEN range
    ELSE Once(cubic_eval_1d(ps[1], ps[2], ps[3], ps[4], Head(roots)), LAMBDA v :
             Once2(Tail(roots), <<min(range[1], v), max(range[2], v)>>, LAMBDA rest, r :
                 cubic_bounds_loop(ps, rest, r)))

cubic_bounds_1d(ps) ==
    Once2(find_cubic_extrema_1d(ps[1], ps[2], ps[3], ps[4]),
          <<min(f64(ps[1]), f64(ps[4])), max(f64(ps[1]), f64(ps[4]))>>,
          LAMBDA roots, range : cubic_bounds_loop(ps, roots, range))

\* cubic_bounds
cubic_bounds(xs, ys) ==
    Once2(cubic_bounds_1d(xs), cubic_bounds_1d(ys), LAMBDA rx, ry :
        <<rx[1], ry[1], rx[2], ry[2]>>)

\* segment_bounds: (min_x, min_y, max_x, max_y)
segment_bounds(segment) ==
    LET p == segment.points
    IN  CASE segment.kind = "Line" -> line_bounds(p[1].x, p[1].y, p[2].x, p[2].y)
          [] segment.kind = "Quad" -> quad_bounds(p[1].x, p[1].y, p[2].x, p[2].y, p[3].x, p[3].y)
          [] segment.kind = "Cubic" ->
                cubic_bounds(<<p[1].x, p[2].x, p[3].x, p[4].x>>,
                             <<p[1].y, p[2].y, p[3].y, p[4].y>>)

GridPoints(point_type) ==
    {[id |-> 0, x |-> x, y |-> y, point_type |-> point_type, smooth |-> FALSE]
        : x \in 0..MaxX, y \in 0..MaxY}

InitBounds ==
    /\ NoFont
    /\ dep_graph = DependencyGraph_default
    /\ added = {}
    /\ walk = None
    /\ iter = None
    /\ \E p0, p1 \in GridPoints("OnCurve"), c0, c1 \in GridPoints("OffCurve") :
          \/ c0 = c1 /\ call = Arguments("segment_bounds", <<Quad(p0, c0, p1)>>)
          \/ call = Arguments("segment_bounds", <<Cubic(p0, c0, c1, p1)>>)

SegmentBounds ==
    /\ call # None
    /\ call.fn = "segment_bounds"
    /\ Returns("segment_bounds", segment_bounds(call.args[1]))

NextBounds == SegmentBounds

SpecBounds == InitBounds /\ [][NextBounds]_vars

-----------------------------------------------------------------------------
(* C18: the tight box and the box of the control points *)

SetMin(S) == CHOOSE m \in S : \A n \in S : m <= n
SetMax(S) == CHOOSE m \in S : \A n \in S : m >= n

Xs(segment) == {segment.points[k].x : k \in DOMAIN segment.points}
Ys(segment) == {segment.points[k].y : k \in DOMAIN segment.points}

\* the box of all control points, end points included
HullBox(segment) ==
    <<f64(SetMin(Xs(segment))), f64(SetMin(Ys(segment))),
      f64(SetMax(Xs(segment))), f64(SetMax(Ys(segment)))>>

le(a, b) == ~lt(b, a)

\* the box `inner` lies inside the box `outer`
BoxInside(inner, outer) ==
    /\ le(outer[1], inner[1])
    /\ le(outer[2], inner[2])
    /\ le(inner[3], outer[3])
    /\ le(inner[4], outer[4])

EndPoints(segment) == {segment.points[1], segment.points[Len(segment.points)]}

InBox(point, box) ==
    /\ le(box[1], f64(point.x)) /\ le(f64(point.x), box[3])
    /\ le(box[2], f64(point.y)) /\ le(f64(point.y), box[4])

Cross(o, a, b) == (a.x - o.x) * (b.y - o.y) - (a.y - o.y) * (b.x - o.x)

\* all points of the segment lie on one line
Collinear(segment) ==
    \A i, j, k \in DOMAIN segment.points :
        Cross(segment.points[i], segment.points[j], segment.points[k]) = 0

\* on each axis the coordinates of the inner control points lie between those
\* of the two end points
ControlsBetweenEndPoints(segment) ==
    LET p == segment.points
        n == Len(p)
    IN  \A k \in 2..(n - 1) :
            /\ SetMin({p[1].x, p[n].x}) <= p[k].x /\ p[k].x <= SetMax({p[1].x, p[n].x})
            /\ SetMin({p[1].y, p[n].y}) <= p[k].y /\ p[k].y <= SetMax({p[1].y, p[n].y})

\* C18 as stated: the box of segment_bounds lies inside the box of the control
\* points, contains both end points, and equals that box exactly when all
\* control points are collinear with the end points.
C18_EqualsHullIffCollinear ==
    Called("segment_bounds") =>
        LET segment == call.args[1]
            box == Unwrap(call.ret)
        IN  /\ BoxInside(box, HullBox(segment))
            /\ \A p \in EndPoints(segment) : InBox(p, box)
            /\ (box = HullBox(segment)) <=> Collinear(segment)

\* C18: for a quadratic or cubic segment the box of segment_bounds lies
\* inside the box of the control points and contains both end points; it
\* equals the box of the control points exactly when, on each axis, the
\* coordinate of every inner control point lies between the coordinates of
\* the two end points.
C18_BoundsWithinHull ==
    Called("segment_bounds") =>
        LET segment == call.args[1]
            box == Unwrap(call.ret)
        IN  /\ BoxInside(box, HullBox(segment))
            /\ \A p \in EndPoints(segment) : InBox(p, box)
            /\ (box = HullBox(segment)) <=> ControlsBetweenEndPoints(segment)

\* the box of a quadratic whose control point is collinear with the end
\* points and beyond one of them was computed
C18_Witness ==
    /\ Called("segment_bounds")
    /\ LET segment == call.args[1]
       IN  /\ segment.kind = "Quad"
           /\ Collinear(segment)
           /\ ~ControlsBetweenEndPoints(segment)
           /\ Unwrap(call.ret) # HullBox(segment)

-----------------------------------------------------------------------------
(* shift-core composite.rs: layer_bbox and layer_to_svg_path *)

\* greatest number of contours, own and of components together, of a call
MaxContours == 3

\* contours of one point, without segment, of a line, a quadratic, a cubic,
\* and one that starts off the curve
ContourPool ==
    {[id |-> 2, points |-> <<on_curve(1, 5, 5)>>, closed |-> TRUE],
     two_point_contour(3, 1, 2, 11, 2),
     closed_contour(5, 0, 0, 5, 10, 10, 0),
     [id |-> 6, points |-> <<on_curve(1, 2, 1), off_curve(2, 2, 9), off_curve(3, 12, 9),
                             on_curve(4, 12, 1)>>,
      closed |-> FALSE],
     [id |-> 7, points |-> <<on_curve(1, 3, 3), off_curve(2, 4, 7)>>, closed |-> FALSE],
     [id |-> 8, points |-> <<off_curve(1, -2, 6), on_curve(2, 4, -1), on_curve(3, 8, 6)>>,
      closed |-> TRUE]}

SeqsOf(S, n) == [1..n -> S]

\* ResolvedContour of a contour that underwent the identity
ResolvedContour(contour) == [points |-> contour.points, closed |-> contour.closed]

\* the loop of accumulate_contour_bbox over the segments of one contour
RECURSIVE accumulate_segments(_, _)
accumulate_segments(segments, acc) ==
    IF segments = <<>> THEN acc
    ELSE Once(segment_bounds(Head(segments)), LAMBDA b :
             Once2(Tail(segments),
                   [min_x |-> min(acc.min_x, b[1]), min_y |-> min(acc.min_y, b[2]),
                    max_x |-> max(acc.max_x, b[3]), max_y |-> max(acc.max_y, b[4]),
                    any |-> TRUE],
                   LAMBDA rest, next_acc : accumulate_segments(rest, next_acc)))

\* accumulate_contour_bbox
accumulate_contour_bbox(points, closed, acc) ==
    Once(segments_of(points, closed), LAMBDA segments : accumulate_segments(segments, acc))

\* the two loops of layer_bbox over contours
RECURSIVE accumulate_contours(_, _)
accumulate_contours(cs, acc) ==
    IF cs = <<>> THEN acc
    ELSE Once2(Tail(cs), accumulate_contour_bbox(Head(cs).points, Head(cs).closed, acc),
               LAMBDA rest, next_acc : accumulate_contours(rest, next_acc))

\* layer_bbox
layer_bbox(l, component_contours) ==
    LET start == [min_x |-> f64_MAX, min_y |-> f64_MAX, max_x |-> f64_MIN, max_y |-> f64_MIN,
                  any |-> FALSE]
    IN  Once(accumulate_contours(contours_iter(l), start), LAMBDA own :
            Once(accumulate_contours(component_contours, own), LAMBDA acc :
                IF acc.any THEN Some(<<acc.min_x, acc.min_y, acc.max_x, acc.max_y>>)
                ELSE None))

\* a layer with the contours `own`, and the contours `comp` as resolved
OutlineArguments(own, comp) ==
    <<[contours |-> own, components |-> <<>>, anchors |-> <<>>],
      [k \in DOMAIN comp |-> ResolvedContour(comp[k])]>>

InitOutline ==
    /\ font = <<>>
    /\ hashSeed \in {0, 1}
    /\ ResolverIdle
    /\ dep_graph = DependencyGraph_default
    /\ added = {}
    /\ walk = None
    /\ iter = None
    /\ \E fn \in {"layer_bbox", "layer_to_svg_path", "layer_bbox, layer_to_svg_path"},
          n \in 0..MaxContours :
          \E m \in 0..(MaxContours - n) :
              \E own \in SeqsOf(ContourPool, n), comp \in SeqsOf(ContourPool, m) :
                  call = Arguments(fn, OutlineArguments(own, comp))

LayerBbox ==
    /\ call # None
    /\ call.fn = "layer_bbox"
    /\ Returns("layer_bbox", layer_bbox(call.args[1], call.args[2]))

(* A String is the sequence of its words, the parts between its spaces;    *)
(* joining non-empty strings by " " is concatenation of the sequences.      *)

\* `{}` of an f64 holding an integer
Display(n) == ToString(n)

\* format!("M {} {}", ..), format!("L {} {}", ..), and so on
format(letter, ps) ==
    <<letter>> \o [k \in 1..(2 * Len(ps)) |->
                    IF k % 2 = 1 THEN Display(ps[(k + 1) \div 2].x)
                    ELSE Display(ps[k \div 2].y)]

RECURSIVE join(_)
join(strings) == IF strings = <<>> THEN <<>> ELSE Head(strings) \o join(Tail(strings))

\* the loop of contour_to_svg_d: the vector `out` of strings
RECURSIVE svg_loop(_, _, _)
svg_loop(segments, first, out_vec) ==
    IF segments = <<>> THEN out_vec
    ELSE LET seg == Head(segments)
             moved == IF first THEN Append(out_vec, format("M", <<seg.points[1]>>)) ELSE out_vec
             letter == CASE seg.kind = "Line" -> "L"
                         [] seg.kind = "Quad" -> "Q"
                         [] seg.kind = "Cubic" -> "C"
         IN  svg_loop(Tail(segments), FALSE,
                      Append(moved, format(letter, Tail(seg.points))))

\* Faulty variant: a contour of fewer than two points is not set aside
\* (C19_SvgFragments fails with it).
contour_to_svg_d_unguarded(points, closed) ==
    LET out_vec == svg_loop(segments_of(points, closed), TRUE, <<>>)
    IN  join(IF closed /\ out_vec # <<>> THEN Append(out_vec, <<"Z">>) ELSE out_vec)

\* contour_to_svg_d
contour_to_svg_d(points, closed) ==
    IF Len(points) < 2 THEN <<>>
    ELSE LET out_vec == svg_loop(segments_of(points, closed), TRUE, <<>>)
         IN  join(IF closed /\ out_vec # <<>> THEN Append(out_vec, <<"Z">>) ELSE out_vec)

\* the two loops of layer_to_svg_path: the vector `parts`
RECURSIVE svg_parts(_, _)
svg_parts(cs, parts) ==
    IF cs = <<>> THEN parts
    ELSE LET d == contour_to_svg_d(Head(cs).points, Head(cs).closed)
         IN  svg_parts(Tail(cs), IF d # <<>> THEN Append(parts, d) ELSE parts)

\* layer_to_svg_path
layer_to_svg_path(l, component_contours) ==
    join(svg_parts(component_contours, svg_parts(contours_iter(l), <<>>)))

LayerToSvgPath ==
    /\ call # None
    /\ call.fn = "layer_to_svg_path"
    /\ Returns("layer_to_svg_path", layer_to_svg_path(call.args[1], call.args[2]))

\* layer_bbox, then layer_to_svg_path, of the same layer and component contours
LayerBboxAndSvgPath ==
    /\ call # None
    /\ call.fn = "layer_bbox, layer_to_svg_path"
    /\ Returns("layer_bbox, layer_to_svg_path",
               [bbox |-> layer_bbox(call.args[1], call.args[2]),
                svg_path |-> layer_to_svg_path(call.args[1], call.args[2])])

NextOutline == LayerBbox \/ LayerToSvgPath \/ LayerBboxAndSvgPath

SpecOutline == InitOutline /\ [][NextOutline]_vars

-----------------------------------------------------------------------------
(* C17: layer_bbox *)

\* the segments of the layer's own contours and of the component contours
SegmentsOfCall ==
    LET cs == call.args[1].contours \o call.args[2]
    IN  UNION {Range(segments_of(cs[k].points, cs[k].closed)) : k \in DOMAIN cs}

Least(S) == CHOOSE m \in S : \A n \in S : le(m, n)
Greatest(S) == CHOOSE m \in S : \A n \in S : le(n, m)

\* C17: layer_bbox returns None exactly when neither the layer's own contours
\* nor the component contours yield a segment; otherwise it returns, per
\* axis, the least of the minima and the greatest of the maxima of the boxes
\* of all their segments, so that the box of every segment lies inside it.
C17_BboxIsUnionOfSegmentBoxes ==
    Called("layer_bbox") =>
        LET boxes == {segment_bounds(s) : s \in SegmentsOfCall}
            r == Unwrap(call.ret)
        IN  /\ (r = None) <=> (SegmentsOfCall = {})
            /\ r # None =>
                  /\ Unwrap(r) = <<Least({b[1] : b \in boxes}), Least({b[2] : b \in boxes}),
                                   Greatest({b[3] : b \in boxes}), Greatest({b[4] : b \in boxes})>>
                  /\ \A b \in boxes : BoxInside(b, Unwrap(r))

\* a box came from an own contour and a component contour of which neither
\* contains the other's box, next to a contour without segment
C17_Witness ==
    /\ Called("layer_bbox")
    /\ Unwrap(call.ret) # None
    /\ Len(call.args[1].contours) = 2
    /\ Len(call.args[2]) = 1
    /\ \E k \in 1..2 : segments_of(call.args[1].contours[k].points,
                                   call.args[1].contours[k].closed) = <<>>
    /\ \A s \in SegmentsOfCall : segment_bounds(s) # Unwrap(Unwrap(call.ret))

-----------------------------------------------------------------------------
(* C19: the path data of a layer *)

Letters == {"M", "L", "Q", "C", "Z"}

\* the number of numbers that follow a command letter
Arity(letter) ==
    CASE letter \in {"M", "L"} -> 2
      [] letter = "Q" -> 4
      [] letter = "C" -> 6
      [] OTHER -> 0

NumberWords == {ToString(n) : n \in -50..50}

\* the commands of a path data string, "?" from where it is none
RECURSIVE Commands(_)
Commands(words) ==
    IF words = <<>> THEN <<>>
    ELSE LET n == Arity(Head(words))
         IN  IF \/ Head(words) \notin Letters
                \/ Len(words) < n + 1
                \/ \E k \in 2..(n + 1) : words[k] \notin NumberWords
             THEN <<[letter |-> "?", numbers |-> <<>>]>>
             ELSE <<[letter |-> Head(words), numbers |-> SubSeq(words, 2, n + 1)]>>
                  \o Commands(SubSeq(words, n + 2, Len(words)))

\* what the claim says of the fragment of a contour: M at the start of the
\* first segment, a letter per segment, Z when closed
Fragment(contour) ==
    LET segs == segments_of(contour.points, contour.closed)
    IN  <<[letter |-> "M",
           numbers |-> <<ToString(segs[1].points[1].x), ToString(segs[1].points[1].y)>>]>>
        \o [k \in DOMAIN segs |->
              [letter |-> CASE segs[k].kind = "Line" -> "L"
                            [] segs[k].kind = "Quad" -> "Q"
                            [] segs[k].kind = "Cubic" -> "C",
               numbers |-> <<>>]]
        \o (IF contour.closed THEN <<[letter |-> "Z", numbers |-> <<>>]>> ELSE <<>>)

\* the numbers kept of the M commands only
MovesOnly(commands) ==
    [k \in DOMAIN commands |->
        IF commands[k].letter = "M" THEN commands[k]
        ELSE [letter |-> commands[k].letter, numbers |-> <<>>]]

\* the fragments of contours, in order
RECURSIVE Fragments(_)
Fragments(cs) == IF cs = <<>> THEN <<>> ELSE Fragment(Head(cs)) \o Fragments(Tail(cs))

YieldsSegment(contour) == segments_of(contour.points, contour.closed) # <<>>

TwoPointsAndSegment(contour) == Len(contour.points) >= 2 /\ YieldsSegment(contour)

\* the layer's own contours, then the component contours
ContoursOfCall == contours_iter(call.args[1]) \o call.args[2]

\* C19 as stated: the path data has only M, L, Q, C and Z commands; every
\* contour that yields a segment contributes a fragment with one M at the
\* start of its first segment, one L, Q or C per segment in order and Z
\* exactly when closed; a contour that yields no segment contributes
\* nothing; the fragments of own contours precede those of components.
C19_FragmentPerContourWithSegment ==
    Called("layer_to_svg_path") =>
        MovesOnly(Commands(Unwrap(call.ret))) = Fragments(SelectSeq(ContoursOfCall, YieldsSegment))

\* C19: the path data has only M, L, Q, C and Z commands; every contour of
\* at least two points that yields a segment contributes a fragment with
\* one M at the start of its first segment, one L, Q or C per segment in
\* order and Z exactly when closed; a contour of fewer than two points or
\* that yields no segment contributes nothing; the fragments of own
\* contours precede those of components.
C19_SvgFragments ==
    Called("layer_to_svg_path") =>
        MovesOnly(Commands(Unwrap(call.ret))) = Fragments(SelectSeq(ContoursOfCall, TwoPointsAndSegment))

\* the path data of an own closed contour and an open component contour,
\* each with a segment, and of a closed one-point contour between them
C19_Witness ==
    /\ Called("layer_to_svg_path")
    /\ Len(call.args[1].contours) = 2
    /\ Len(call.args[2]) = 1
    /\ \E k \in 1..2 : /\ call.args[1].contours[k].closed
                       /\ TwoPointsAndSegment(call.args[1].contours[k])
    /\ \E k \in 1..2 : /\ Len(call.args[1].contours[k].points) = 1
                       /\ YieldsSegment(call.args[1].contours[k])
    /\ ~call.args[2][1].closed
    /\ TwoPointsAndSegment(call.args[2][1])
    /\ Len(Unwrap(call.ret)) > 6

-----------------------------------------------------------------------------
(* FontLayerProvider::glyph_layer on glyphs of several layers *)

\* greatest number of layers of a glyph
MaxLayers == 3

\* the k-th layer of glyph A, with the given numbers of contours and components
ShapedLayer(k, shape) ==
    [contours |-> [j \in 1..shape[1] |-> two_point_contour(100 * k + 10 * j, 0, k, 10, j)],
     components |-> [j \in 1..shape[2] |->
                        [id |-> 10 * k + j, base_glyph |-> "B",
                         transform |-> DecomposedTransform_default]],
     anchors |-> <<>>]

LayerShapes == (0..2) \X (0..1)

\* glyph A with n layers; glyph B absent, without layer, or with one layer
LayeredFont(n, shapes, b) ==
    [A |-> [layers |-> [k \in 1..n |-> ShapedLayer(k, shapes[k])]]]
    @@ (IF b = 0 THEN <<>>
        ELSE [B |-> [layers |-> IF b = 1 THEN <<>> ELSE <<ShapedLayer(9, <<1, 0>>)>>]])

InitLayers ==
    /\ \E n \in 0..MaxLayers, b \in 0..2 :
          \E shapes \in [1..n -> LayerShapes] : font = LayeredFont(n, shapes, b)
    /\ hashSeed \in {0, 1}
    /\ ResolverIdle
    /\ dep_graph = DependencyGraph_default
    /\ added = {}
    /\ walk = None
    /\ iter = None
    /\ \E glyph_name \in {"A", "B"} : call = Arguments("glyph_layer", <<glyph_name>>)

GlyphLayer ==
    /\ call # None
    /\ call.fn = "glyph_layer"
    /\ Returns("glyph_layer", glyph_layer(call.args[1]))

NextLayers == GlyphLayer

SpecLayers == InitLayers /\ [][NextLayers]_vars

-----------------------------------------------------------------------------
(* C20: the preferred layer *)

\* C20: for a glyph of the font with at least one layer, glyph_layer returns
\* a layer of that glyph whose number of contours plus components is at
\* least that of every other layer of the glyph; for a glyph that is not in
\* the font or has no layer it returns none.
C20_PreferredLayer ==
    Called("glyph_layer") =>
        LET glyph_name == call.args[1]
            r == Unwrap(call.ret)
        IN  IF glyph_name \in DOMAIN font /\ font[glyph_name].layers # <<>>
            THEN /\ r # None
                 /\ \E k \in DOMAIN font[glyph_name].layers :
                       /\ Unwrap(r) = font[glyph_name].layers[k]
                       /\ \A j \in DOMAIN font[glyph_name].layers :
                             Len(font[glyph_name].layers[j].contours)
                                + Len(font[glyph_name].layers[j].components)
                             <= Len(Unwrap(r).contours) + Len(Unwrap(r).components)
            ELSE r = None

\* of three layers the second has more components than the first has
\* contours and components, the third is empty, and the second is returned
C20_Witness ==
    /\ Called("glyph_layer")
    /\ call.args[1] = "A"
    /\ Len(font["A"].layers) = 3
    /\ Len(font["A"].layers[1].contours) = 2
    /\ Len(font["A"].layers[1].components) = 0
    /\ Len(font["A"].layers[2].contours) = 2
    /\ Len(font["A"].layers[2].components) = 1
    /\ layer_complexity(font["A"].layers[3]) = 0
    /\ Unwrap(call.ret) = Some(font["A"].layers[2])

-----------------------------------------------------------------------------
(* C23: sequences of fewer than two points *)

\* C23: the iterator of a sequence of fewer than two points, open or closed,
\* yields no segment.
C23_FewerThanTwoPointsYieldNothing ==
    (iter # None /\ Len(iter.it.points) < 2) => iter.yielded = <<>>

-----------------------------------------------------------------------------
(* C29: the segments of a contour form one path *)

\* C29: in the segments of one contour every segment starts at the point
\* where the segment before it ended, for every point sequence.
C29_SegmentsAreContiguous ==
    iter # None =>
        \A k \in 2..Len(iter.yielded) :
            iter.yielded[k].points[1]
                = iter.yielded[k - 1].points[Len(iter.yielded[k - 1].points)]

-----------------------------------------------------------------------------
(* C30: the box and the path data of the same outline *)

\* C30: for the same layer and the same resolved component contours,
\* layer_bbox returns None exactly when layer_to_svg_path returns the empty
\* string.
C30_BboxAndPathAgreeOnEmptiness ==
    Called("layer_bbox, layer_to_svg_path") =>
        ((Unwrap(call.ret).bbox = None) <=> (Unwrap(call.ret).svg_path = <<>>))

-----------------------------------------------------------------------------
(* DecomposedTransform::to_matrix (component.rs) on its own *)

\* transform centers have coordinates in -MaxCenter..MaxCenter
MaxCenter == 2

Rotations == {0, 90, 180, 270}
Skews == {0, 45, 135}
Scales == {-1, 1, 2}

InitMatrix ==
    /\ NoFont
    /\ dep_graph = [uses |-> <<>>, used_by |-> <<>>]
    /\ added = {}
    /\ walk = None
    /\ iter = None
    /\ \E rotation \in Rotations, scale_x, scale_y \in Scales, skew_x, skew_y \in Skews,
          t_center_x, t_center_y \in (0 - MaxCenter)..MaxCenter,
          translate_x \in {0, 3}, translate_y \in {0, -2} :
          call = Arguments("to_matrix",
                    <<[translate_x |-> translate_x, translate_y |-> translate_y,
                       rotation |-> rotation, scale_x |-> scale_x, scale_y |-> scale_y,
                       skew_x |-> skew_x, skew_y |-> skew_y,
                       t_center_x |-> t_center_x, t_center_y |-> t_center_y]>>)

ToMatrix ==
    /\ call # None
    /\ Returns("to_matrix", to_matrix(call.args[1]))

NextMatrix == ToMatrix

SpecMatrix == InitMatrix /\ [][NextMatrix]_vars

\* the elementary transforms the fields of a DecomposedTransform stand for
Rotation(a) ==
    [xx |-> CosDeg(a), xy |-> SinDeg(a), yx |-> 0 - SinDeg(a), yy |-> CosDeg(a),
     dx |-> 0, dy |-> 0]

Scale(x, y) == [xx |-> x, xy |-> 0, yx |-> 0, yy |-> y, dx |-> 0, dy |-> 0]

Skew(x, y) ==
    [xx |-> 1, xy |-> 0 - TanDeg(x), yx |-> TanDeg(y), yy |-> 1, dx |-> 0, dy |-> 0]

\* a.then(b).then(c)...: the product of a sequence of transforms, each one
\* acting on what the ones after it made of a point
RECURSIVE Product(_)
Product(ts) ==
    IF Len(ts) = 1 THEN ts[1] ELSE compose_transform(Head(ts), Product(Tail(ts)))

-----------------------------------------------------------------------------
(* C28: what anchor attachment changes of a transform *)

\* C28: the effective transform of a component has the xx, xy, yx and yy of
\* the component's explicit transform, attached to an anchor or not; only dx
\* and dy may differ.
C28_AttachmentOnlyTranslates ==
    cur # None =>
        /\ Unwrap(cur).component_transform.xx = Unwrap(cur).explicit_transform.xx
        /\ Unwrap(cur).component_transform.xy = Unwrap(cur).explicit_transform.xy
        /\ Unwrap(cur).component_transform.yx = Unwrap(cur).explicit_transform.yx
        /\ Unwrap(cur).component_transform.yy = Unwrap(cur).explicit_transform.yy

\* a component whose explicit transform is not a translation was attached
\* to a placed anchor, which moved it
C28_Witness ==
    /\ cur # None
    /\ AttachingAnchors(Unwrap(cur).component.base_glyph, Unwrap(cur).placed_before) # {}
    /\ <<Unwrap(cur).explicit_transform.xx, Unwrap(cur).explicit_transform.xy,
         Unwrap(cur).explicit_transform.yx, Unwrap(cur).explicit_transform.yy>>
          # <<1, 0, 0, 1>>
    /\ <<Unwrap(cur).component_transform.dx, Unwrap(cur).component_transform.dy>>
          # <<Unwrap(cur).explicit_transform.dx, Unwrap(cur).explicit_transform.dy>>

-----------------------------------------------------------------------------
(* C22: the visiting set and the call chain *)

\* the glyph names of the active flatten_component_named calls, outermost first
ChainNames == [k \in DOMAIN stack |-> stack[k].glyph_name]

\* C22: during a resolution the visiting set is the root name plus the names
\* of the active call chain, on which no name occurs twice and the root name
\* does not occur; so between two direct components the set is {root}, and a
\* component is expanded exactly when its base glyph is not the root and not
\* on the chain of its caller, whatever earlier siblings expanded.
C22_VisitingIsCallChain ==
    pc = "root" =>
        /\ visiting = {root_glyph_name} \cup Range(ChainNames)
        /\ \A j, k \in DOMAIN stack :
              j # k => ChainNames[j] # ChainNames[k]
        /\ root_glyph_name \notin Range(ChainNames)
        /\ stack = <<>> => visiting = {root_glyph_name}
        /\ (cur # None /\ Len(stack) >= Unwrap(cur).depth) =>
              (Unwrap(cur).entered
                  <=> Unwrap(cur).component.base_glyph
                         \notin {root_glyph_name}
                                \cup {ChainNames[k] : k \in 1..Unwrap(cur).depth})

\* the second of two direct components with the same base glyph is being
\* expanded two calls deep, after the first one was expanded and unmarked
C22_Witness ==
    /\ pc = "root"
    /\ Len(stack) = 2
    /\ Len(out) = 1
    /\ out[1].component_glyph_name = stack[1].glyph_name
    /\ out[1].contours # <<>>
    /\ visiting = {root_glyph_name, stack[1].glyph_name, stack[2].glyph_name}

-----------------------------------------------------------------------------
(* C25: one copy of a glyph's contours per simple path *)

\* the simple paths from a component list down: the component chains on
\* which no glyph name repeats and no name of `seen` occurs, each with the
\* glyph it ends at and the effective transforms along it
RECURSIVE SimplePathsOf(_, _, _, _)
RECURSIVE SimplePathsFrom(_, _, _)
SimplePathsOf(cs, seen, chain, k) ==
    IF k > Len(cs) THEN <<>>
    ELSE (IF cs[k].base_glyph \in seen THEN <<>>
          ELSE SimplePathsFrom(cs[k].base_glyph, seen \cup {cs[k].base_glyph},
                               Append(chain, EffectiveTransform(cs, k))))
         \o SimplePathsOf(cs, seen, chain, k + 1)

SimplePathsFrom(g, seen, chain) ==
    <<[glyph |-> g, chain |-> chain]>>
    \o (IF glyph_layer(g) = None THEN <<>>
        ELSE SimplePathsOf(RankedComponents(Unwrap(glyph_layer(g))), seen, chain, 1))

\* the copy of a glyph's contours a path stands for
CopyOf(path) ==
    IF glyph_layer(path.glyph) = None THEN <<>>
    ELSE LET l == Unwrap(glyph_layer(path.glyph))
         IN  [k \in DOMAIN l.contours |-> ChainShape(l.contours[k], path.chain)]

RECURSIVE Copies(_)
Copies(paths) == IF paths = <<>> THEN <<>> ELSE CopyOf(Head(paths)) \o Copies(Tail(paths))

SimplePathsOfResult(r) ==
    SimplePathsOf(RankedComponents(r.layer), {r.root_glyph_name}, <<>>, 1)

\* C25: on any component graph, cyclic or not, the flattened result holds
\* one copy of a glyph's contours for each simple path from the root layer
\* to the glyph (no glyph name twice on the chain, the root name included),
\* and nothing else: k paths give k copies, no path gives none.
C25_OneCopyPerSimplePath ==
    \A n \in DOMAIN results :
        SeqBag(Shapes(flatten_component_contours(results[n].out)))
            = SeqBag(Copies(SimplePathsOfResult(results[n])))

\* on a cyclic graph: B, reached by two simple paths, is there twice; the
\* root's own contours, reached only through the repeated root name, are not
C25_Witness ==
    /\ GraphIs(<<"B", "B">>, <<"A">>, <<>>)
    /\ OwnContours("A") >= 1
    /\ OwnContours("B") >= 1
    /\ Len(results) = 1
    /\ results[1].layer = RootLayer
    /\ Len(SelectSeq(SimplePathsOfResult(results[1]), LAMBDA p : p.glyph = "B")) = 2
    /\ Len(flatten_component_contours(results[1].out)) = 2 * OwnContours("B")

-----------------------------------------------------------------------------
(* C27: placed anchors belong to one parent layer *)

\* the named anchors of the base layers of the components before the k-th
NamedAnchorsBefore(cs, k) ==
    LET NamedOf(g) ==
            IF glyph_layer(g) = None THEN 0
            ELSE Cardinality({j \in DOMAIN Unwrap(glyph_layer(g)).anchors :
                                 Unwrap(glyph_layer(g)).anchors[j].named})
        sum[j \in 0..(k - 1)] == IF j = 0 THEN 0 ELSE sum[j - 1] + NamedOf(cs[j].base_glyph)
    IN  sum[k - 1]

\* C27: every expansion of a glyph keeps a placed-anchors list of its own,
\* empty at its start and holding, before its k-th component, what the
\* components before the k-th of the same glyph placed and nothing else; the
\* same holds for the root layer. So a component sees the anchors of its
\* earlier siblings in the same glyph only, not those of an outer level, and
\* a level does not see what was placed while a nested glyph was expanded.
C27_PlacedAnchorsAreScoped ==
    pc = "root" =>
        /\ placed_anchors = PlacedBefore(components, idx)
        /\ Len(placed_anchors) = NamedAnchorsBefore(components, idx)
        /\ \A d \in DOMAIN stack :
              /\ stack[d].placed_anchors = PlacedBefore(stack[d].components, stack[d].i)
              /\ Len(stack[d].placed_anchors)
                    = NamedAnchorsBefore(stack[d].components, stack[d].i)
              /\ stack[d].i = 1 => stack[d].placed_anchors = <<>>
        /\ (cur # None /\ Len(stack) >= Unwrap(cur).depth) =>
              LET c == Unwrap(cur)
              IN  IF c.depth = 0
                  THEN c.placed_before = PlacedBefore(components, idx - 1)
                  ELSE c.placed_before
                          = PlacedBefore(stack[c.depth].components, stack[c.depth].i - 1)

\* a nested component whose base layer has an anchor _X is the first of its
\* glyph while X is placed at the root level: it is not attached
C27_Witness ==
    /\ pc = "root"
    /\ cur # None
    /\ Unwrap(cur).depth = 1
    /\ Len(stack) >= 1
    /\ Unwrap(cur).placed_before = <<>>
    /\ AttachingAnchors(Unwrap(cur).component.base_glyph, placed_anchors) # {}
    /\ Unwrap(cur).component_transform = Unwrap(cur).explicit_transform

-----------------------------------------------------------------------------
(* C26: the dependency index covers what a resolution reads *)

\* `for dependent in dependents`: a HashSet of names in the order it iterates
names_iter(S) == HashOrder(SelectSeq(GlyphOrder, LAMBDA name : name \in S))

\* `while let Some(current) = stack.pop() { .. }` to its end; w holds result
\* and stack
RECURSIVE dependents_while(_, _, _)
dependents_while(g, w, glyph_name) ==
    IF w.stack = <<>> THEN w.result
    ELSE LET current == w.stack[Len(w.stack)]
             popped == [w EXCEPT !.stack = SubSeq(@, 1, Len(@) - 1)]
         IN  IF current \notin DOMAIN g.used_by
             THEN dependents_while(g, popped, glyph_name)
             ELSE dependents_while(g, dependents_loop(popped, glyph_name,
                                                      names_iter(g.used_by[current])),
                                   glyph_name)

\* DependencyGraph::dependents_recursive
dependents_recursive(g, glyph_name) ==
    dependents_while(g, [result |-> {}, stack |-> <<glyph_name>>], glyph_name)

\* the glyphs whose layer the resolution in progress has just read: the base
\* glyph of the component of the current loop pass and the glyphs of the
\* calls on the stack
LayersRead ==
    {g \in Names :
        /\ glyph_layer(g) # None
        /\ \/ cur # None /\ Unwrap(cur).component.base_glyph = g
           \/ \E k \in DOMAIN stack : stack[k].glyph_name = g}

\* C26: when the resolution of glyph R against the font reads the layer of a
\* glyph H other than R, at whatever depth, R is among
\* dependents_recursive(H) of the DependencyGraph rebuilt from the same font.
C26_DependentsCoverReads ==
    pc = "root" =>
        \A H \in LayersRead :
            H # root_glyph_name =>
                root_glyph_name \in dependents_recursive(rebuild(font), H)

\* the layer of a glyph that is not a direct component of the root is read
\* two calls deep
C26_Witness ==
    /\ pc = "root"
    /\ cur # None
    /\ Unwrap(cur).depth >= 1
    /\ Unwrap(cur).component.base_glyph \in LayersRead
    /\ Unwrap(cur).component.base_glyph # root_glyph_name
    /\ Unwrap(cur).component.base_glyph \notin Range(BasesOf(Unwrap(layer)))
    /\ root_glyph_name
          \in dependents_recursive(rebuild(font), Unwrap(cur).component.base_glyph)

-----------------------------------------------------------------------------
(* shift-node font_engine.rs: the FontEngine, its edit session and its     *)
(* layer provider.  A layer id is the position of the layer in the glyph.  *)

\* add_empty_contour is taken while ENTITY_COUNTER has handed out fewer ids
\* than this since the font was loaded
MaxNewContours == 1

\* FontEngine after load_font: no session
FontEngine_loaded ==
    [current_edit_session |-> None, editing_glyph |-> None, editing_layer_id |-> None]

\* Glyph::new(name): no layers
Glyph_new == [layers |-> <<>>]

\* GlyphLayer::with_width(500.0): no contours, components or anchors
GlyphLayer_with_width == [contours |-> <<>>, components |-> <<>>, anchors |-> <<>>]

\* Font::default_layer_id
default_layer_id == 1

\* `glyph.layers().iter().max_by_key(|(_, l)| layer_complexity(l)).map(|(id, _)| *id)`:
\* the id of the last layer, in the order the map iterates, of greatest key
RECURSIVE max_by_key_layer_id(_, _, _)
max_by_key_layer_id(layers, ids, best) ==
    IF ids = <<>> THEN best
    ELSE IF best = None
            \/ layer_complexity(layers[Head(ids)]) >= layer_complexity(layers[Unwrap(best)])
         THEN max_by_key_layer_id(layers, Tail(ids), Some(Head(ids)))
         ELSE max_by_key_layer_id(layers, Tail(ids), best)

\* Glyph::remove_layer and Glyph::set_layer
remove_layer(layers, id) == SubSeq(layers, 1, id - 1) \o SubSeq(layers, id + 1, Len(layers))
set_layer(layers, id, l) == SubSeq(layers, 1, id - 1) \o <<l>> \o SubSeq(layers, id, Len(layers))

\* Font::take_glyph and Font::put_glyph
take_glyph(f, name) == [g \in DOMAIN f \ {name} |-> f[g]]
put_glyph(f, name, glyph) == [g \in DOMAIN f \cup {name} |-> IF g = name THEN glyph ELSE f[g]]

SessionActive ==
    engine # None /\ engine.current_edit_session # None /\ engine.editing_glyph # None

\* fonts with composites of one and two levels and a cycle
EngineGraphs ==
    {[A |-> <<"B">>, B |-> <<>>, C |-> <<>>],
     [A |-> <<"B", "C">>, B |-> <<>>, C |-> <<>>],
     [A |-> <<"B">>, B |-> <<"C">>, C |-> <<>>],
     [A |-> <<"B">>, B |-> <<"A">>, C |-> <<>>]}

InitEngine ==
    /\ \E v \in {1, 4}, graph \in EngineGraphs : font = BuildFont(v, graph)
    /\ hashSeed \in {0, 1}
    /\ LocalsIdle
    /\ engine = FontEngine_loaded
    /\ dep_graph = rebuild(font)
    /\ added = {}
    /\ walk = None
    /\ iter = None
    /\ call = None

\* FontEngine::start_edit_session_for_name
StartEditSession ==
    /\ pc = "idle"
    /\ engine # None
    /\ engine.current_edit_session = None
    /\ \E glyph_name \in Names :
          LET glyph == IF glyph_name \in DOMAIN font THEN font[glyph_name] ELSE Glyph_new
              best == max_by_key_layer_id(glyph.layers,
                                          HashOrder([k \in DOMAIN glyph.layers |-> k]), None)
              layer_id == IF best = None THEN default_layer_id ELSE Unwrap(best)
          IN  /\ font' = take_glyph(font, glyph_name)
              /\ engine' =
                    [current_edit_session |->
                        Some([glyph_name |-> glyph_name,
                              layer |-> IF best = None THEN GlyphLayer_with_width
                                        ELSE glyph.layers[layer_id]]),
                     editing_glyph |->
                        Some([name |-> glyph_name,
                              layers |-> IF best = None THEN glyph.layers
                                         ELSE remove_layer(glyph.layers, layer_id)]),
                     editing_layer_id |-> Some(layer_id)]
    /\ call' = None
    /\ UNCHANGED <<hashSeed, nextId, pc, layer, root_glyph_name, out, visiting,
                   placed_anchors, components, idx, contours, stack, cur, results,
                   entry, flattened, dep_graph, added, walk, iter>>

\* EditSession::add_empty_contour through FontEngine::add_empty_contour
AddEmptyContour ==
    /\ pc = "idle"
    /\ SessionActive
    /\ nextId < 1000 + MaxNewContours
    /\ engine' = [engine EXCEPT !.current_edit_session =
                     Some([Unwrap(@) EXCEPT !.layer.contours =
                              Append(@, [id |-> nextId, points |-> <<>>, closed |-> FALSE])])]
    /\ nextId' = nextId + 1
    /\ call' = None
    /\ UNCHANGED <<font, hashSeed, pc, layer, root_glyph_name, out, visiting,
                   placed_anchors, components, idx, contours, stack, cur, results,
                   entry, flattened, dep_graph, added, walk, iter>>

\* FontEngine::save_font: apply_edits_for_save, write_font, restore_from_backup;
\* what stays in the font is the backup, the glyph the font held or Glyph::new
SaveFont ==
    /\ pc = "idle"
    /\ SessionActive
    /\ LET glyph_name == Unwrap(engine.editing_glyph).name
       IN  font' = put_glyph(take_glyph(font, glyph_name), glyph_name,
                             IF glyph_name \in DOMAIN font THEN font[glyph_name]
                             ELSE Glyph_new)
    /\ call' = None
    /\ UNCHANGED <<hashSeed, nextId, pc, layer, root_glyph_name, out, visiting,
                   placed_anchors, components, idx, contours, stack, cur, results,
                   entry, flattened, dep_graph, added, walk, iter, engine>>

\* FontEngine::end_edit_session
EndEditSession ==
    /\ pc = "idle"
    /\ SessionActive
    /\ engine.editing_layer_id # None
    /\ LET glyph == Unwrap(engine.editing_glyph)
           layers == set_layer(glyph.layers, Unwrap(engine.editing_layer_id),
                               Unwrap(engine.current_edit_session).layer)
       IN  /\ font' = put_glyph(font, glyph.name, [layers |-> layers])
           /\ dep_graph' = rebuild(font')
    /\ engine' = FontEngine_loaded
    /\ call' = None
    /\ UNCHANGED <<hashSeed, nextId, pc, layer, root_glyph_name, out, visiting,
                   placed_anchors, components, idx, contours, stack, cur, results,
                   entry, flattened, added, walk, iter>>

\* self.layer_provider().glyph_layer(glyph_name)
ProviderGlyphLayer ==
    /\ pc = "idle"
    /\ engine # None
    /\ \E glyph_name \in Names :
          call' = [fn |-> "EngineLayerProvider::glyph_layer", args |-> <<glyph_name>>,
                   ret |-> Some(EngineLayerProvider_glyph_layer(glyph_name))]
    /\ UNCHANGED <<resolverVars, dep_graph, added, walk, iter>>

\* FontEngine::resolve_component_instances_for_layer for a glyph's layer as
\* the engine sees it (glyph_layer_by_name)
EngineResolve ==
    /\ engine # None
    /\ results = <<>>
    /\ \E glyph_name \in Names :
          /\ EngineLayerProvider_glyph_layer(glyph_name) # None
          /\ Resolve(Unwrap(EngineLayerProvider_glyph_layer(glyph_name)), glyph_name,
                     "resolve_component_instances_for_layer")

NextEngine ==
    \/ StartEditSession \/ AddEmptyContour \/ SaveFont \/ EndEditSession
    \/ ProviderGlyphLayer \/ EngineResolve
    \/ RootComponent \/ NestedComponent \/ Return \/ Finish

SpecEngine == InitEngine /\ [][NextEngine]_vars

\* C21: the provider of the engine returns the session's in-progress layer
\* for the name of the glyph under edit while a session is active, and for
\* every other name, and for every name without a session, what the
\* font-backed provider returns; so the expansion of a component whose base
\* glyph is under edit takes its contours and components from the session's
\* layer.
C21_SessionAwareProvider ==
    /\ Called("EngineLayerProvider::glyph_layer") =>
          Unwrap(call.ret)
             = IF SessionActive /\ call.args[1] = Unwrap(engine.editing_glyph).name
               THEN Some(Unwrap(engine.current_edit_session).layer)
               ELSE glyph_layer(call.args[1])
    /\ (/\ SessionActive
        /\ pc = "root"
        /\ cur # None
        /\ Unwrap(cur).entered
        /\ Unwrap(cur).component.base_glyph = Unwrap(engine.editing_glyph).name
        /\ Len(stack) = Unwrap(cur).depth + 1
        /\ stack[Len(stack)].i = 1) =>
          LET edited == Unwrap(engine.current_edit_session).layer
              top == stack[Len(stack)]
              n == Len(edited.contours)
              expected == push_contours(<<>>, contours_iter(edited), top.transform, 0)
          IN  /\ top.components = sorted_components(edited)
              /\ Len(contours) >= n
              /\ Shapes(SubSeq(contours, Len(contours) - n + 1, Len(contours)))
                    = Shapes(expected)

\* a composite whose component is under edit is resolved after a contour was
\* added in the session: the persisted font does not hold that layer
C21_Witness ==
    /\ SessionActive
    /\ pc = "root"
    /\ cur # None
    /\ Unwrap(cur).entered
    /\ Unwrap(cur).component.base_glyph = Unwrap(engine.editing_glyph).name
    /\ Len(stack) = Unwrap(cur).depth + 1
    /\ stack[Len(stack)].i = 1
    /\ root_glyph_name # Unwrap(engine.editing_glyph).name
    /\ Len(Unwrap(engine.current_edit_session).layer.contours) = 2
    /\ Len(contours) = 2
    /\ glyph_layer(Unwrap(engine.editing_glyph).name) = None
    /\ Called("EngineLayerProvider::glyph_layer")
    /\ call.args[1] = Unwrap(engine.editing_glyph).name

====
